---- MODULE Spec2Model ----
(***************************************************************************)
(* Model of the route-offset engine of backend/mission_handler/            *)
(* mission_handler.py.                                                     *)
(*                                                                         *)
(* Numbers.  The program computes in metres with binary floating point.    *)
(* The model computes on the integer grid of millimetres: a planar point   *)
(* is <<x, y>> in millimetres, a geodetic point is <<lat, lng>>.  Square   *)
(* roots and quotients are rounded to the nearest millimetre; unit         *)
(* vectors carry four decimal digits.  Comparisons of distances and of     *)
(* angles are made on squares and are exact.                               *)
(*                                                                         *)
(* Form.  A value that the program binds to a local variable and uses      *)
(* several times is passed as the argument of an auxiliary operator, and   *)
(* every loop is a RECURSIVE operator with one recursive call.             *)
(***************************************************************************)
EXTENDS Integers, Sequences, FiniteSets, TLC

----------------------------------------------------------------------------
(* Units and the module constants of mission_handler.py *)

U == 1000

STEP == 1 * U

TOLERANCE_DOWN == (9 * U) \div 10

TOLERANCE_UP == (11 * U) \div 10

----------------------------------------------------------------------------
(* Arithmetic *)

Abs(a) == IF a < 0 THEN -a ELSE a

Min(a, b) == IF a <= b THEN a ELSE b

Max(a, b) == IF a >= b THEN a ELSE b

MinOf(S) == CHOOSE m \in S : \A o \in S : m <= o

MaxOf(S) == CHOOSE m \in S : \A o \in S : m >= o

\* the first index (1-based) of a least element of the sequence
FirstMin(dists) ==
    CHOOSE k \in 1..Len(dists) :
        \A j \in 1..Len(dists) : dists[k] < dists[j] \/ (dists[k] = dists[j] /\ k <= j)

\* a / b for b > 0, rounded to the nearest integer, halves away from zero
RoundDiv(a, b) ==
    IF a >= 0 THEN (2 * a + b) \div (2 * b) ELSE -((2 * (-a) + b) \div (2 * b))

\* base + a * step for the largest digit a in 0..digits for which the square
\* of that stays <= n; no root of a number below 2^31 exceeds 46340
SqrtDigit(n, base, step, digits) ==
    base + step * Cardinality({a \in 1..digits : /\ base + a * step <= 46340
                                                 /\ (base + a * step) * (base + a * step) <= n})

\* floor of the square root, 0 <= n < 2^31, in two digits of base 256
ISqrt(n) == SqrtDigit(n, SqrtDigit(n, 0, 256, 181), 1, 255)

NearestRoot(n, r) == IF n - r * r > r THEN r + 1 ELSE r

\* the square root rounded to the nearest integer
RSqrt(n) == NearestRoot(n, ISqrt(n))

LimbBase == 10000

\* k * n * n as three digits in base LimbBase (most significant first),
\* for 0 <= n < 2.6e8 and 1 <= k <= 3: the product does not fit an int
Limbs(k, n) ==
    LET h  == n \div LimbBase
        l  == n % LimbBase
    IN  <<k * h * h + ((2 * k * h * l + ((k * l * l) \div LimbBase)) \div LimbBase),
          (2 * k * h * l + ((k * l * l) \div LimbBase)) % LimbBase,
          (k * l * l) % LimbBase>>

LimbsGE(a, b) ==
    \/ a[1] > b[1]
    \/ a[1] = b[1] /\ a[2] > b[2]
    \/ a[1] = b[1] /\ a[2] = b[2] /\ a[3] >= b[3]

\* k1 * a^2 >= k2 * b^2
ScaledSqGE(k1, a, k2, b) == LimbsGE(Limbs(k1, Abs(a)), Limbs(k2, Abs(b)))

----------------------------------------------------------------------------
(* Points (shapely Point) and vectors (numpy arrays of two floats) *)

Dist2(p, q) == (p[1] - q[1]) * (p[1] - q[1]) + (p[2] - q[2]) * (p[2] - q[2])

\* p.distance(q), to the nearest millimetre; exact along an axis
Distance(p, q) ==
    IF p[1] = q[1] THEN Abs(p[2] - q[2])
    ELSE IF p[2] = q[2] THEN Abs(p[1] - q[1])
    ELSE RSqrt(Dist2(p, q))

\* p.distance(q) >= m
DistGE(p, q, m) == m <= 0 \/ Dist2(p, q) >= m * m

\* p.distance(q) < m
DistLT(p, q, m) == ~DistGE(p, q, m)

\* route[a:b] of Python, for 0-based a <= b
Tuple(f) == f \o <<>>

Slice(s, a, b) == SubSeq(s, a + 1, Min(b, Len(s)))

UnitScale == 10000

\* a vector of the same direction whose larger component has four digits or
\* more, so that its rounded norm is accurate to four digits
RECURSIVE ScaleUp(_)
ScaleUp(v) ==
    IF v = <<0, 0>> \/ Max(Abs(v[1]), Abs(v[2])) >= 3000 THEN v
    ELSE ScaleUp(<<10 * v[1], 10 * v[2]>>)

\* np.linalg.norm(v), to the nearest millimetre
Norm(v) == RSqrt(v[1] * v[1] + v[2] * v[2])

UnitWith(w, n) == <<RoundDiv(UnitScale * w[1], n), RoundDiv(UnitScale * w[2], n)>>

UnitOf(w) == UnitWith(w, Norm(w))

\* v / np.linalg.norm(v), in units of 1 / UnitScale; v is not the zero vector
Unit(v) == UnitOf(ScaleUp(v))

\* Point(p.x + dist * unit[0], p.y + dist * unit[1])
Displace(p, unit, dist) ==
    <<p[1] + RoundDiv(dist * unit[1], UnitScale), p[2] + RoundDiv(dist * unit[2], UnitScale)>>

----------------------------------------------------------------------------
(* interpolate_offset *)

\* a selection without blending: the safe offset up to tol_up
select_offset(safe_offset, boundary_offset, dist, tol_down, tol_up) ==
    IF dist < tol_up THEN safe_offset ELSE boundary_offset

interpolate_offset(safe_offset, boundary_offset, dist, tol_down, tol_up) ==
    IF dist <= tol_down THEN safe_offset
    ELSE IF dist >= tol_up THEN boundary_offset
    ELSE <<RoundDiv(safe_offset[1] * (tol_up - dist) + boundary_offset[1] * (dist - tol_down),
                    tol_up - tol_down),
           RoundDiv(safe_offset[2] * (tol_up - dist) + boundary_offset[2] * (dist - tol_down),
                    tol_up - tol_down)>>

----------------------------------------------------------------------------
(* reduce_route *)

\* a reduction that measures from the first kept point
RECURSIVE reduce_from_first(_, _, _)
reduce_from_first(reduced, rest, min_distance_m) ==
    IF rest = <<>> THEN reduced
    ELSE IF DistGE(Head(rest), reduced[1], min_distance_m)
         THEN reduce_from_first(Append(reduced, Head(rest)), Tail(rest), min_distance_m)
         ELSE reduce_from_first(reduced, Tail(rest), min_distance_m)

\* a reduction that puts each kept point in front of the earlier ones
RECURSIVE reduce_newest_first(_, _, _)
reduce_newest_first(reduced, rest, min_distance_m) ==
    IF rest = <<>> THEN reduced
    ELSE IF DistGE(Head(rest), reduced[1], min_distance_m)
         THEN reduce_newest_first(<<Head(rest)>> \o reduced, Tail(rest), min_distance_m)
         ELSE reduce_newest_first(reduced, Tail(rest), min_distance_m)

\* lines 163-165, rest the points of route[1:] not yet visited
RECURSIVE reduce_loop(_, _, _)
reduce_loop(reduced, rest, min_distance_m) ==
    IF rest = <<>> THEN reduced
    ELSE IF DistGE(Head(rest), reduced[Len(reduced)], min_distance_m)
         THEN reduce_loop(Append(reduced, Head(rest)), Tail(rest), min_distance_m)
         ELSE reduce_loop(reduced, Tail(rest), min_distance_m)

reduce_route(route, min_distance_m) ==
    IF route = <<>> THEN <<>>
    ELSE reduce_loop(<<Head(route)>>, Tail(route), min_distance_m)

----------------------------------------------------------------------------
(* remove_loops_composite *)

\* cos^2 of the angle threshold as a fraction num / den, for the thresholds
\* in [90, 180) whose cos^2 is rational
CosSq(angle_threshold) ==
    CASE angle_threshold = 90  -> <<0, 1>>
      [] angle_threshold = 120 -> <<1, 4>>
      [] angle_threshold = 135 -> <<1, 2>>
      [] angle_threshold = 150 -> <<3, 4>>

\* an angle test that a vector of norm 0 passes
angle_or_zero_vector(v1, v2, angle_threshold) ==
    \/ v1 = <<0, 0>>
    \/ v2 = <<0, 0>>
    \/ /\ v1[1] * v2[1] + v1[2] * v2[2] <= 0
       /\ ScaledSqGE(CosSq(angle_threshold)[2] - CosSq(angle_threshold)[1],
                     v1[1] * v2[1] + v1[2] * v2[2],
                     CosSq(angle_threshold)[1],
                     v1[1] * v2[2] - v1[2] * v2[1])

\* angle >= angle_threshold, where angle is 0.0 when a vector has norm 0 and
\* degrees(acos(clip(dot / (norm1 * norm2)))) otherwise.  With
\* norm1^2 * norm2^2 = dot^2 + cross^2:
\*   cos(angle) <= -sqrt(num/den)  <=>  dot <= 0 /\ (den-num)*dot^2 >= num*cross^2
AngleGE(v1, v2, angle_threshold) ==
    LET dot   == v1[1] * v2[1] + v1[2] * v2[2]
        cross == v1[1] * v2[2] - v1[2] * v2[1]
        c     == CosSq(angle_threshold)
    IN  IF v1 = <<0, 0>> \/ v2 = <<0, 0>> THEN FALSE
        ELSE /\ dot <= 0
             /\ \/ c[1] = 0
                \/ ScaledSqGE(c[2] - c[1], dot, c[1], cross)

\* the test of lines 199-208 for 0-based i, j
LoopAt(cleaned, i, j, distance_threshold, angle_threshold) ==
    /\ DistLT(cleaned[i + 1], cleaned[j + 1], distance_threshold)
    /\ AngleGE(<<cleaned[i + 2][1] - cleaned[i + 1][1], cleaned[i + 2][2] - cleaned[i + 1][2]>>,
               <<cleaned[j + 1][1] - cleaned[j][1], cleaned[j + 1][2] - cleaned[j][2]>>,
               angle_threshold)

MinOrZero(S) == IF S = {} THEN 0 ELSE MinOf(S)

\* The inner loop for one i: j runs from i + 2 up and is set back to i + 2 by
\* every deletion, so the pair deleted next is the least j >= i + 2 of the
\* current list that passes the test (0: there is none, and i moves on)
first_loop(cleaned, i, distance_threshold, angle_threshold) ==
    MinOrZero({j \in (i + 2)..(Len(cleaned) - 1) :
                  LoopAt(cleaned, i, j, distance_threshold, angle_threshold)})

RECURSIVE loops_scan(_, _, _, _)
\* a deletion that also keeps point i + 1, and moves on to the next i
loops_keep_next(cleaned, i, j, distance_threshold, angle_threshold) ==
    loops_scan(IF j = 0 THEN cleaned
               ELSE Slice(cleaned, 0, i + 2) \o Slice(cleaned, j, Len(cleaned)),
               i + 1, distance_threshold, angle_threshold)

\* a deletion that takes point j away with the points before it
loops_drop_j(cleaned, i, j, distance_threshold, angle_threshold) ==
    loops_scan(IF j = 0 THEN cleaned
               ELSE Slice(cleaned, 0, i + 1) \o Slice(cleaned, j + 1, Len(cleaned)),
               IF j = 0 THEN i + 1 ELSE i,
               distance_threshold, angle_threshold)

loops_next(cleaned, i, j, distance_threshold, angle_threshold) ==
    loops_scan(IF j = 0 THEN cleaned
               ELSE Slice(cleaned, 0, i + 1) \o Slice(cleaned, j, Len(cleaned)),
               IF j = 0 THEN i + 1 ELSE i,
               distance_threshold, angle_threshold)

loops_scan(cleaned, i, distance_threshold, angle_threshold) ==
    IF ~(i < Len(cleaned) - 2) THEN cleaned
    ELSE loops_next(cleaned, i, first_loop(cleaned, i, distance_threshold, angle_threshold),
                    distance_threshold, angle_threshold)

remove_loops_composite(route, distance_threshold, angle_threshold) ==
    IF route = <<>> THEN <<>>
    ELSE loops_scan(route, 0, distance_threshold, angle_threshold)

----------------------------------------------------------------------------
(* smooth_route *)

RECURSIVE SumCoord(_, _, _, _)
SumCoord(route, c, lo, hi) ==
    IF lo > hi THEN 0 ELSE route[lo][c] + SumCoord(route, c, lo + 1, hi)

\* a mean over a window that wraps around the ends of the route
smooth_point_wrapped(route, i, half) ==
    <<RoundDiv(SumCoord(Tuple([k \in 1..(2 * half + 1) |->
                           route[((i - half + k - 1) % Len(route)) + 1]]), 1, 1, 2 * half + 1),
               2 * half + 1),
      RoundDiv(SumCoord(Tuple([k \in 1..(2 * half + 1) |->
                           route[((i - half + k - 1) % Len(route)) + 1]]), 2, 1, 2 * half + 1),
               2 * half + 1)>>

\* point i (0-based) of the smoothed route: the mean over
\* range(max(0, i - half), min(len(route), i + half + 1))
smooth_point(route, i, half) ==
    LET lo == Max(0, i - half)
        hi == Min(Len(route), i + half + 1)
    IN  <<RoundDiv(SumCoord(route, 1, lo + 1, hi), hi - lo),
          RoundDiv(SumCoord(route, 2, lo + 1, hi), hi - lo)>>

\* a smoothing that yields only the points with a full window
smooth_interior(route, window_size) ==
    Tuple([k \in 1..Max(0, Len(route) - 2 * (window_size \div 2)) |->
        smooth_point(route, k - 1 + (window_size \div 2), window_size \div 2)])

smooth_route(route, window_size) ==
    IF route = <<>> \/ window_size < 2 THEN route
    ELSE Tuple([k \in 1..Len(route) |-> smooth_point(route, k - 1, window_size \div 2)])

----------------------------------------------------------------------------
(* wgs_to_utm, utm_to_wgs.  The projection (pyproj, EPSG:4326 <-> EPSG:32637)  *)
(* is modelled as the change of origin and of coordinate order it makes:  *)
(* geodetic coordinates are counted in the same millimetre grid from the  *)
(* origin <<Lat0, Lng0>>, so the round trip is exact.                      *)

Lat0 == 55000

Lng0 == 37000

\* wgs_to_utm(lng, lat) -> (x, y)
wgs_to_utm(lng, lat) == <<lng - Lng0, lat - Lat0>>

\* utm_to_wgs(x, y) -> (lat, lng)
utm_to_wgs(x, y) == <<y + Lat0, x + Lng0>>

----------------------------------------------------------------------------
(* Lines and rings (shapely LineString, Polygon.exterior): sequences of      *)
(* coordinates.  The polygons of the modelled missions are axis-parallel     *)
(* rectangles and the route segments are axis-parallel; the detour chords    *)
(* of a corrected route may be oblique.                                      *)

\* the lengths of the segments of a line
SegmentLengths(coords) ==
    Tuple([k \in 1..(Len(coords) - 1) |-> Distance(coords[k], coords[k + 1])])

\* s[lo] + ... + s[hi], added up by halves
RECURSIVE SumOver(_, _, _)
SumOver(s, lo, hi) ==
    IF hi < lo THEN 0
    ELSE IF hi = lo THEN s[lo]
    ELSE SumOver(s, lo, (lo + hi) \div 2) + SumOver(s, ((lo + hi) \div 2) + 1, hi)

SumAll(s) == SumOver(s, 1, Len(s))

\* line.length
LineLength(coords) == SumAll(SegmentLengths(coords))

ArcsOf(lengths) == Tuple([k \in 1..(Len(lengths) + 1) |-> SumOver(lengths, 1, k - 1)])

\* the arc length of every coordinate of a line
ArcLengths(coords) == ArcsOf(SegmentLengths(coords))

LastOf(s) == s[Len(s)]

Clamp(v, a, b) == Max(Min(a, b), Min(v, Max(a, b)))

\* the point of segment (a, b) nearest to p, for an axis-parallel segment
NearestOnSegment(p, a, b) ==
    CASE a[2] = b[2] -> <<Clamp(p[1], a[1], b[1]), a[2]>>
      [] a[1] = b[1] -> <<a[1], Clamp(p[2], a[2], b[2])>>

\* the index k of the first segment (coords[k], coords[k+1]) at minimum
\* distance from p
NearestSegment(coords, p) ==
    FirstMin(Tuple([k \in 1..(Len(coords) - 1) |->
        Dist2(p, NearestOnSegment(p, coords[k], coords[k + 1]))]))

ProjectAt(coords, p, k) ==
    LineLength(SubSeq(coords, 1, k))
      + Distance(coords[k], NearestOnSegment(p, coords[k], coords[k + 1]))

\* line.project(p): the arc length of the point of the line nearest to p
line_project(coords, p) == ProjectAt(coords, p, NearestSegment(coords, p))

\* the point of segment (a, b), of length l > 0, at distance t from a
PointAlong(a, b, t, l) ==
    <<a[1] + RoundDiv((b[1] - a[1]) * t, l), a[2] + RoundDiv((b[2] - a[2]) * t, l)>>

\* the point at arc length d, 0 < d < line.length, of a line whose
\* coordinates have the arc lengths arcs: it lies on the first segment that
\* ends at d or beyond
InterpolateOn(coords, arcs, d, k) ==
    PointAlong(coords[k], coords[k + 1], d - arcs[k], arcs[k + 1] - arcs[k])

InterpolateAt(coords, arcs, d) ==
    IF Len(coords) = 1 \/ d <= 0 THEN coords[1]
    ELSE IF d >= LastOf(arcs) THEN LastOf(coords)
    ELSE InterpolateOn(coords, arcs, d,
                       Cardinality({k \in 1..(Len(arcs) - 1) : arcs[k + 1] < d}) + 1)

\* line.interpolate(d): the point at arc length d, the end points beyond
line_interpolate(coords, d) == InterpolateAt(coords, ArcLengths(coords), d)

DistanceAt(coords, p, k) == Distance(p, NearestOnSegment(p, coords[k], coords[k + 1]))

\* pt.distance(line) for a line of axis-parallel segments
line_distance(coords, p) == DistanceAt(coords, p, NearestSegment(coords, p))

\* np.linspace(a, b, num)[k], k = 0 .. num - 1
linspace(a, b, num, k) == a + RoundDiv((b - a) * k, num - 1)

----------------------------------------------------------------------------
(* Polygons: the exterior ring of an axis-parallel rectangle, closed *)

MinX(ring) == MinOf({ring[k][1] : k \in 1..Len(ring)})

MaxX(ring) == MaxOf({ring[k][1] : k \in 1..Len(ring)})

MinY(ring) == MinOf({ring[k][2] : k \in 1..Len(ring)})

MaxY(ring) == MaxOf({ring[k][2] : k \in 1..Len(ring)})

\* poly.contains(pt): pt lies in the interior
contains(ring, pt) ==
    /\ MinX(ring) < pt[1] /\ pt[1] < MaxX(ring)
    /\ MinY(ring) < pt[2] /\ pt[2] < MaxY(ring)

\* a boundary test that no point passes
touches_nothing(ring, pt) == FALSE

\* poly.touches(pt): pt lies on the boundary
touches(ring, pt) ==
    /\ MinX(ring) <= pt[1] /\ pt[1] <= MaxX(ring)
    /\ MinY(ring) <= pt[2] /\ pt[2] <= MaxY(ring)
    /\ ~contains(ring, pt)

is_valid(pt, poly) == (~contains(poly, pt)) /\ (~touches(poly, pt))

BufferAbout(ring, base_offset, cx2, cy2) ==
    Tuple([k \in 1..Len(ring) |->
        <<IF 2 * ring[k][1] < cx2 THEN ring[k][1] - base_offset ELSE ring[k][1] + base_offset,
          IF 2 * ring[k][2] < cy2 THEN ring[k][2] - base_offset ELSE ring[k][2] + base_offset>>])

\* poly.buffer(base_offset, join_style=2).exterior: mitred joins keep the
\* corners square, the ring runs as the polygon's own ring does
buffer(ring, base_offset) ==
    BufferAbout(ring, base_offset, MinX(ring) + MaxX(ring), MinY(ring) + MaxY(ring))

----------------------------------------------------------------------------
(* MissionManager._poly_to_utm *)

RingToUtm(coords) == Tuple([k \in 1..Len(coords) |-> wgs_to_utm(coords[k][1], coords[k][2])])

poly_to_utm(poly_wgs) ==
    RingToUtm(IF poly_wgs[1] # poly_wgs[Len(poly_wgs)]
              THEN Append(poly_wgs, poly_wgs[1]) ELSE poly_wgs)

----------------------------------------------------------------------------
(* MissionManager._correct_segment, _nearest_index *)

\* segment.intersects(poly), for an axis-parallel segment <<a, b>>
intersects(segment, ring) ==
    /\ Max(Min(segment[1][1], segment[2][1]), MinX(ring))
         <= Min(Max(segment[1][1], segment[2][1]), MaxX(ring))
    /\ Max(Min(segment[1][2], segment[2][2]), MinY(ring))
         <= Min(Max(segment[1][2], segment[2][2]), MaxY(ring))

\* the point of the closed rectangle on segment <<a, b>> nearest to its end p
ClipEnd(p, a, b, ring) ==
    <<Clamp(Clamp(p[1], MinX(ring), MaxX(ring)), a[1], b[1]),
      Clamp(Clamp(p[2], MinY(ring), MaxY(ring)), a[2], b[2])>>

CoordsOf(ca, cb) == IF ca = cb THEN <<ca>> ELSE <<ca, cb>>

\* segment.intersection(poly).coords for an intersecting segment: the part of
\* the segment in the closed rectangle, in the direction of the segment; one
\* coordinate when the two meet in a single point
intersection(segment, ring) ==
    CoordsOf(ClipEnd(segment[1], segment[1], segment[2], ring),
             ClipEnd(segment[2], segment[1], segment[2], ring))

\* int(np.argmin(dists)), 0-based: the first coordinate nearest to pt
nearest_index(coords, pt) ==
    FirstMin(Tuple([k \in 1..Len(coords) |-> Dist2(coords[k], pt)])) - 1

BypassPoints == 50

Cand1Of(boundary, arcs, entry_d, exit_d) ==
    Tuple([k \in 1..BypassPoints |->
        InterpolateAt(boundary, arcs, linspace(entry_d, exit_d, BypassPoints, k - 1))])

\* cand1: the arc from entry_d to exit_d
cand1(boundary, entry_d, exit_d) ==
    Cand1Of(boundary, ArcLengths(boundary), entry_d, exit_d)

Cand2Of(boundary, arcs, entry_d, exit_d, total) ==
    Tuple([k \in 1..BypassPoints |->
        InterpolateAt(boundary, arcs,
            (exit_d + linspace(0, total - (exit_d - entry_d), BypassPoints, k - 1)) % total)])

\* cand2: the arc from exit_d on, over the ring's start, to entry_d
cand2(boundary, entry_d, exit_d) ==
    Cand2Of(boundary, ArcLengths(boundary), entry_d, exit_d, LineLength(boundary))

\* the first polygon (1-based index) the segment intersects, 0 when none
RECURSIVE first_intersecting(_, _, _)
first_intersecting(segment, polygons, k) ==
    IF k > Len(polygons) THEN 0
    ELSE IF intersects(segment, polygons[k]) THEN k
    ELSE first_intersecting(segment, polygons, k + 1)

RaisesAt(segment, polygons, k) == k # 0 /\ Len(intersection(segment, polygons[k])) = 1

\* linemerge of a geometry that holds no line raises: the segment meets its
\* first intersecting polygon in a single point
correct_segment_raises(segment, polygons) ==
    RaisesAt(segment, polygons, first_intersecting(segment, polygons, 1))

\* The two arcs have floating-point lengths; when the lengths are equal in
\* exact arithmetic, which of them compares smaller is decided by rounding,
\* given here as the input tie_first
ShorterOf(c1, c2, l1, l2, tie_first) == IF l1 < l2 \/ (l1 = l2 /\ tie_first) THEN c1 ELSE c2

ShorterArc(c1, c2, tie_first) == ShorterOf(c1, c2, LineLength(c1), LineLength(c2), tie_first)

BypassBetween(boundary, entry_d, exit_d, tie_first) ==
    ShorterArc(cand1(boundary, entry_d, exit_d), cand2(boundary, entry_d, exit_d), tie_first)

\* the detour of lines 717-725, pe and px the arc lengths of entry and exit
bypass_of(boundary, pe, px, tie_first) ==
    IF pe > px THEN BypassBetween(boundary, px, pe, tie_first)
    ELSE BypassBetween(boundary, pe, px, tie_first)

\* lines 727-733
SpliceAt(segment, bypass, entry_idx, exit_idx) ==
    Slice(segment, 0, entry_idx + 1) \o bypass \o Slice(segment, exit_idx, Len(segment))

Splice(segment, bypass, e_idx, x_idx) ==
    IF e_idx > x_idx THEN SpliceAt(segment, bypass, x_idx, e_idx)
    ELSE SpliceAt(segment, bypass, e_idx, x_idx)

Detour(segment, ring, entry, exit, tie_first) ==
    Splice(segment,
           bypass_of(ring, line_project(ring, entry), line_project(ring, exit), tie_first),
           nearest_index(segment, entry), nearest_index(segment, exit))

CorrectWith(segment, ring, inter, tie_first) ==
    Detour(segment, ring, inter[1], inter[Len(inter)], tie_first)

CorrectAt(segment, polygons, k, tie_first) ==
    IF k = 0 THEN segment
    ELSE CorrectWith(segment, polygons[k], intersection(segment, polygons[k]), tie_first)

correct_segment(segment, polygons, tie_first) ==
    CorrectAt(segment, polygons, first_intersecting(segment, polygons, 1), tie_first)

----------------------------------------------------------------------------
(* MissionManager._classify_points *)

\* [(pt["lng"], pt["lat"]) for pt in self.route_pts]
route_line(route_pts) == Tuple([k \in 1..Len(route_pts) |-> <<route_pts[k].lng, route_pts[k].lat>>])

segments_of(coords) == Tuple([k \in 1..(Len(coords) - 1) |-> <<coords[k], coords[k + 1]>>])

\* the corrected segments joined, a joint shared by two segments taken once
RECURSIVE join_segments(_, _)
join_segments(corrected_coords, segs) ==
    IF segs = <<>> THEN corrected_coords
    ELSE join_segments(
             corrected_coords
               \o (IF corrected_coords # <<>>
                      /\ Head(segs)[1] = corrected_coords[Len(corrected_coords)]
                   THEN Tail(Head(segs)) ELSE Head(segs)),
             Tail(segs))

to_utm(coords) == Tuple([k \in 1..Len(coords) |-> wgs_to_utm(coords[k][1], coords[k][2])])

CorrectAll(segments, polygons_wgs, tie_first) ==
    Tuple([k \in 1..Len(segments) |-> correct_segment(segments[k], polygons_wgs, tie_first)])

\* lines 456-468: corrected the result of _correct_segment for every segment
corrected_route_m(corrected) == to_utm(join_segments(<<>>, corrected))

original_route_m(route_pts) == to_utm(route_line(route_pts))

\* a walk that always ends with a sample on the end point of the line
gen_points_to_end(line, arcs, step) ==
    Tuple([k \in 1..((LastOf(arcs) \div step) + 2) |->
        InterpolateAt(line, arcs, (k - 1) * step)])

GenPointsOn(line, arcs, step) ==
    Tuple([k \in 1..((LastOf(arcs) \div step) + 1) |-> InterpolateAt(line, arcs, (k - 1) * step)])

\* gen_points: the samples at d = 0, step, 2 * step, ... while d <= line.length
gen_points(line, step) == GenPointsOn(line, ArcLengths(line), step)

\* a labelling without memory: inside the band a sample is a boundary sample
LabelWithoutMemory(previous, i, d) == IF d < TOLERANCE_DOWN THEN "safe" ELSE "boundary"

\* lines 485-490: the label of sample i (0-based) at distance d, previous
\* the label labels[i - 1] of the sample before it
LabelOf(previous, i, d) ==
    IF d < TOLERANCE_DOWN THEN "safe"
    ELSE IF d > TOLERANCE_UP THEN "boundary"
    ELSE IF i > 0 THEN previous ELSE "safe"

\* the loop of lines 479-492 over the samples lo..hi (1-based), previous the
\* label of sample lo - 1; the range is walked in two halves, the second
\* half starting from the last label of the first
RECURSIVE label_run(_, _, _, _)
RECURSIVE label_rest(_, _, _, _)
label_run(dists, lo, hi, previous) ==
    IF hi < lo THEN <<>>
    ELSE IF lo = hi THEN <<LabelOf(previous, lo - 1, dists[lo])>>
    ELSE label_rest(label_run(dists, lo, (lo + hi) \div 2, previous),
                    dists, ((lo + hi) \div 2) + 1, hi)

label_rest(labels, dists, lo, hi) == labels \o label_run(dists, lo, hi, LastOf(labels))

hysteresis(dists) == label_run(dists, 1, Len(dists), "safe")

LabelPoints(disc_pts_m, dists, labels) ==
    Tuple([k \in 1..Len(disc_pts_m) |->
        [index |-> k - 1,
         wgs   |-> utm_to_wgs(disc_pts_m[k][1], disc_pts_m[k][2]),
         type  |-> labels[k],
         dist  |-> dists[k]]])

ClassifyDists(disc_pts_m, dists) == LabelPoints(disc_pts_m, dists, hysteresis(dists))

ClassifySamples(disc_pts_m, original) ==
    ClassifyDists(disc_pts_m,
                  Tuple([k \in 1..Len(disc_pts_m) |-> line_distance(original, disc_pts_m[k])]))

\* LineString and linemerge raise before any sample is made
classify_raises(route_pts, polygons_wgs) ==
    \/ Len(route_pts) < 2
    \/ \E k \in 1..(Len(route_pts) - 1) :
          correct_segment_raises(segments_of(route_line(route_pts))[k], polygons_wgs)

----------------------------------------------------------------------------
(* MissionManager._project_to_nearest_polygon, _point_to_segment_projection,  *)
(* _compute_safe_offset                                                      *)

ProjectionAt(p, proj) == <<proj, Dist2(p, proj)>>

\* (proj, dist) of lines 666-672; dist is compared, so its square is given
point_to_segment_projection(p, a, b) == ProjectionAt(p, NearestOnSegment(p, a, b))

\* the loops of lines 645-649 from edge e of polygon k on; best.poly = 0 is
\* (None, None), best.edge the edge of the polygon the projection lies on
RECURSIVE nearest_scan(_, _, _, _, _)
RECURSIVE nearest_edge(_, _, _, _, _, _)
nearest_scan(p, polygons_utm, k, e, best) ==
    IF k > Len(polygons_utm) THEN best
    ELSE IF e >= Len(polygons_utm[k]) THEN nearest_scan(p, polygons_utm, k + 1, 1, best)
    ELSE nearest_edge(p, polygons_utm, k, e, best,
                      point_to_segment_projection(p, polygons_utm[k][e],
                                                  polygons_utm[k][e + 1]))

\* line 648 for the projection pd on edge e of polygon k
nearest_edge(p, polygons_utm, k, e, best, pd) ==
    IF best.poly = 0 \/ pd[2] < best.dist
    THEN nearest_scan(p, polygons_utm, k, e + 1,
                      [proj |-> pd[1], poly |-> k, dist |-> pd[2], edge |-> e])
    ELSE nearest_scan(p, polygons_utm, k, e + 1, best)

project_to_nearest_polygon(pt_wgs, polygons_utm) ==
    nearest_scan(wgs_to_utm(pt_wgs[2], pt_wgs[1]), polygons_utm, 1, 1,
                 [proj |-> <<0, 0>>, poly |-> 0, dist |-> 0, edge |-> 0])

\* The vector v of line 619 for a sample that lies on the polygon's edge in
\* exact arithmetic.  The program reaches the sample through two projections
\* and an interpolation, so its v is the rounding residue of these: the zero
\* vector (residue = 0) or a tiny vector across the edge, to the left of the
\* edge's direction (residue = 1) or to its right (residue = -1).
residue_vector(ring, e, residue) ==
    <<-residue * (ring[e + 1][2] - ring[e][2]), residue * (ring[e + 1][1] - ring[e][1])>>

\* lines 624-627
PlaceSafe(proj, poly, unit, offset, candidate) ==
    IF contains(poly, candidate) THEN Displace(proj, unit, -offset) ELSE candidate

SafeAlong(proj, poly, unit, offset) ==
    PlaceSafe(proj, poly, unit, offset, Displace(proj, unit, offset))

\* lines 620-623
SafeFrom(safe, near, polygons_utm, offset, v) ==
    IF v = <<0, 0>> THEN safe
    ELSE SafeAlong(near.proj, polygons_utm[near.poly], Unit(v), offset)

\* line 619
SafeVector(safe, near, polygons_utm, residue) ==
    IF safe = near.proj THEN residue_vector(polygons_utm[near.poly], near.edge, residue)
    ELSE <<safe[1] - near.proj[1], safe[2] - near.proj[2]>>

SafeNear(safe, near, polygons_utm, offset, residue) ==
    IF near.poly = 0 THEN safe
    ELSE SafeFrom(safe, near, polygons_utm, offset,
                  SafeVector(safe, near, polygons_utm, residue))

compute_safe_offset(pt_wgs, polygons_utm, offset, residue) ==
    SafeNear(wgs_to_utm(pt_wgs[2], pt_wgs[1]),
             project_to_nearest_polygon(pt_wgs, polygons_utm),
             polygons_utm, offset, residue)

----------------------------------------------------------------------------
(* shift_by_neighbor, shift_point *)

\* lines 305-310
FirstValid(candidate1, candidate2, point, poly) ==
    IF is_valid(candidate1, poly) THEN candidate1
    ELSE IF is_valid(candidate2, poly) THEN candidate2
    ELSE point

\* lines 299-303
ShiftAcross(point, bisector, poly, base_offset) ==
    FirstValid(Displace(point, <<-bisector[2], bisector[1]>>, base_offset),
               Displace(point, <<bisector[2], -bisector[1]>>, base_offset),
               point, poly)

\* lines 292-297
BisectorFrom(v1_unit, sum) ==
    IF sum = <<0, 0>> THEN <<-v1_unit[2], v1_unit[1]>> ELSE Unit(sum)

BisectorOf(v1_unit, v2_unit) ==
    BisectorFrom(v1_unit, <<v1_unit[1] + v2_unit[1], v1_unit[2] + v2_unit[2]>>)

\* lines 285-291
ShiftBetween(point, v1, v2, poly, base_offset) ==
    IF v1 = <<0, 0>> \/ v2 = <<0, 0>> THEN point
    ELSE ShiftAcross(point, BisectorOf(Unit(v1), Unit(v2)), poly, base_offset)

\* lines 280-284
ShiftAmong(point, neighbor_prev, neighbor_next, poly, base_offset) ==
    ShiftBetween(point,
                 <<neighbor_next[1] - point[1], neighbor_next[2] - point[2]>>,
                 <<point[1] - neighbor_prev[1], point[2] - neighbor_prev[2]>>,
                 poly, base_offset)

shift_by_neighbor(point, idx, points, poly, base_offset) ==
    IF Len(points) < 2 THEN point
    ELSE ShiftAmong(point, points[((idx - 1) % Len(points)) + 1],
                    points[((idx + 1) % Len(points)) + 1], poly, base_offset)

EpsilonNudge == U \div 10

\* an offset point, with the note whether the epsilon nudge made it
Tagged(p, nudge) == [pt |-> p, nudge |-> nudge]

\* lines 335-336 and 572-573
NudgeInvalid(candidate, poly) ==
    IF ~is_valid(candidate, poly)
    THEN Tagged(<<candidate[1] + EpsilonNudge, candidate[2] + EpsilonNudge>>, TRUE)
    ELSE Tagged(candidate, FALSE)

\* lines 333-336 and 570-573: the projection on the ring of the buffer,
\* nudged when it is not valid
buffer_fallback(point, poly, poly_offset) ==
    NudgeInvalid(line_interpolate(poly_offset, line_project(poly_offset, point)), poly)

\* line 332
KeepValid(candidate, point, poly, poly_offset) ==
    IF ~is_valid(candidate, poly) THEN buffer_fallback(point, poly, poly_offset)
    ELSE Tagged(candidate, FALSE)

shift_point(point, idx, points, poly, base_offset, poly_offset) ==
    KeepValid(shift_by_neighbor(point, idx, points, poly, base_offset),
              point, poly, poly_offset)

----------------------------------------------------------------------------
(* MissionManager._build_offsets *)

RECURSIVE SumDisp(_, _, _, _, _)
SumDisp(shifted, seg_utm, c, lo, hi) ==
    IF lo > hi THEN 0
    ELSE shifted[lo].pt[c] - seg_utm[lo][c] + SumDisp(shifted, seg_utm, c, lo + 1, hi)

\* lines 548-553: pt moved by the mean displacement of the last k offsets
Extrapolated(pt, shifted, seg_utm, k) ==
    <<pt[1] + RoundDiv(SumDisp(shifted, seg_utm, 1, Len(shifted) - k + 1, Len(shifted)), k),
      pt[2] + RoundDiv(SumDisp(shifted, seg_utm, 2, Len(shifted) - k + 1, Len(shifted)), k)>>

\* lines 545-555
FirstCandidate(pt, i, seg_utm, shifted, poly_utm, base_offset, poly_offset, k) ==
    IF k > 0 /\ Len(shifted) >= k THEN Tagged(Extrapolated(pt, shifted, seg_utm, k), FALSE)
    ELSE shift_point(pt, i, seg_utm, poly_utm, base_offset, poly_offset)

\* lines 565-573
FirstValidOr(candidate1, candidate2, poly_utm, fallback) ==
    IF is_valid(candidate1, poly_utm) THEN Tagged(candidate1, FALSE)
    ELSE IF is_valid(candidate2, poly_utm) THEN Tagged(candidate2, FALSE)
    ELSE fallback

\* lines 560-564
AcrossTangent(pt, t_unit, poly_utm, base_offset, poly_offset) ==
    FirstValidOr(Displace(pt, <<-t_unit[2], t_unit[1]>>, base_offset),
                 Displace(pt, <<t_unit[2], -t_unit[1]>>, base_offset),
                 poly_utm, buffer_fallback(pt, poly_utm, poly_offset))

\* lines 557-575
TangentFallback(pt, i, seg_utm, poly_utm, base_offset, poly_offset, tangent) ==
    IF tangent # <<0, 0>>
    THEN AcrossTangent(pt, Unit(tangent), poly_utm, base_offset, poly_offset)
    ELSE shift_point(pt, i, seg_utm, poly_utm, base_offset, poly_offset)

\* line 556
ValidateLast(first, pt, i, seg_utm, poly_utm, base_offset, poly_offset) ==
    IF is_valid(first.pt, poly_utm) THEN first
    ELSE TangentFallback(pt, i, seg_utm, poly_utm, base_offset, poly_offset,
                         <<seg_utm[i + 1][1] - seg_utm[i][1], seg_utm[i + 1][2] - seg_utm[i][2]>>)

\* lines 544-575: the boundary candidate of the last point i = n - 1 of a
\* group of n > 1 points, of which shifted holds the offsets made so far
last_candidate(pt, i, seg_utm, shifted, poly_utm, base_offset, poly_offset) ==
    ValidateLast(FirstCandidate(pt, i, seg_utm, shifted, poly_utm, base_offset, poly_offset,
                                Min(3, Len(seg_utm) - 1)),
                 pt, i, seg_utm, poly_utm, base_offset, poly_offset)

\* lines 544-577
candidate_boundary(pt, i, seg_utm, shifted, poly_utm, base_offset, poly_offset) ==
    IF i = Len(seg_utm) - 1 /\ Len(seg_utm) > 1
    THEN last_candidate(pt, i, seg_utm, shifted, poly_utm, base_offset, poly_offset)
    ELSE shift_point(pt, i, seg_utm, poly_utm, base_offset, poly_offset)

\* a selection that takes the boundary candidate whatever the distance
boundary_alone(safe, boundary, d) == Tagged(boundary.pt, boundary.nudge)

\* lines 581-586; the result holds the nudge when it is made of the boundary
\* candidate
final_candidate(safe, boundary, d) ==
    Tagged(IF TOLERANCE_DOWN < d /\ d < TOLERANCE_UP
           THEN interpolate_offset(safe, boundary.pt, d, TOLERANCE_DOWN, TOLERANCE_UP)
           ELSE IF d <= TOLERANCE_DOWN THEN safe
           ELSE boundary.pt,
           d > TOLERANCE_DOWN /\ boundary.nudge)

\* lines 543-586 for point i (0-based) of the group
GroupPoint(i, seg_utm, shifted, dists, polygons_utm, base_offset, residue, poly_offset) ==
    final_candidate(
        compute_safe_offset(utm_to_wgs(seg_utm[i + 1][1], seg_utm[i + 1][2]), polygons_utm,
                            base_offset, residue),
        candidate_boundary(seg_utm[i + 1], i, seg_utm, shifted, polygons_utm[1], base_offset,
                           poly_offset),
        dists[i + 1])

\* lines 542-587: the offsets of one group of boundary points, from point
\* Len(shifted) on; dists are the stored distances of the group's samples
RECURSIVE shift_group(_, _, _, _, _, _, _)
shift_group(shifted, seg_utm, dists, polygons_utm, base_offset, residue, poly_offset) ==
    IF Len(shifted) = Len(seg_utm) THEN shifted
    ELSE shift_group(Append(shifted,
                            GroupPoint(Len(shifted), seg_utm, shifted, dists, polygons_utm,
                                       base_offset, residue, poly_offset)),
                     seg_utm, dists, polygons_utm, base_offset, residue, poly_offset)

\* the last index (1-based) of the run of boundary samples that starts at k
RECURSIVE run_end(_, _)
run_end(disc_points, k) ==
    IF k < Len(disc_points) /\ disc_points[k + 1].type = "boundary"
    THEN run_end(disc_points, k + 1) ELSE k

\* lines 533-539 for the group of the samples k .. e
boundary_segment(disc_points, k, e, polygons_utm, offset, residue) ==
    shift_group(<<>>,
                Tuple([j \in 1..(e - k + 1) |->
                    wgs_to_utm(disc_points[k + j - 1].wgs[2], disc_points[k + j - 1].wgs[1])]),
                Tuple([j \in 1..(e - k + 1) |-> disc_points[disc_points[k + j - 1].index + 1].dist]),
                polygons_utm, offset, residue, buffer(polygons_utm[1], offset))

\* the offset of sample k alone when it is safe (line 517), those of the
\* group of boundary samples that starts at k otherwise
OffsetsOf(disc_points, k, polygons_utm, offset, residue) ==
    IF disc_points[k].type = "safe"
    THEN <<Tagged(compute_safe_offset(disc_points[k].wgs, polygons_utm, offset, residue),
                  FALSE)>>
    ELSE boundary_segment(disc_points, k, run_end(disc_points, k), polygons_utm, offset,
                          residue)

\* a filling that computes the safe offsets alone and leaves out the rest
offsets_of_safe_only(disc_points, acc, polygons_utm, offset, residue) ==
    Tuple([k \in 1..Cardinality({j \in 1..Len(disc_points) : disc_points[j].type = "safe"}) |->
        Tagged(compute_safe_offset(
                   disc_points[CHOOSE j \in 1..Len(disc_points) :
                       /\ disc_points[j].type = "safe"
                       /\ Cardinality({h \in 1..j : disc_points[h].type = "safe"}) = k].wgs,
                   polygons_utm, offset, residue), FALSE)])

\* offset_points: every sample is safe or boundary, so the two passes of
\* lines 515-589 fill the list, here in the order of the samples; acc holds
\* the offsets of the first Len(acc) samples
RECURSIVE offsets_from(_, _, _, _, _)
offsets_from(disc_points, acc, polygons_utm, offset, residue) ==
    IF Len(acc) >= Len(disc_points) THEN acc
    ELSE offsets_from(disc_points,
                      acc \o OffsetsOf(disc_points, Len(acc) + 1, polygons_utm, offset, residue),
                      polygons_utm, offset, residue)

\* the offset points of _build_offsets, each with its nudge note
build_offsets(disc_points, polygons_utm, offset, residue) ==
    offsets_from(disc_points, <<>>, polygons_utm, offset, residue)

----------------------------------------------------------------------------
(* MissionManager._find_nearest_altitude, _save_outputs *)

\* a comparison that also takes a waypoint at the same distance
nearer_or_level(latlng, route, pos, best) ==
    \/ best = 0
    \/ Dist2(latlng, <<route[pos].lat, route[pos].lng>>)
         <= Dist2(latlng, <<route[Max(best, 1)].lat, route[Max(best, 1)].lng>>)

\* lines 762-770; geodesic(...).meters is compared only, and is modelled by the
\* distance of the two points in the grid: pos is the 1-based waypoint under
\* test, best the waypoint whose altitude is held (0: none, altitude "")
\* line 767, d < best_distance: best = 0 is the infinite best_distance
nearer(latlng, route, pos, best) ==
    \/ best = 0
    \/ Dist2(latlng, <<route[pos].lat, route[pos].lng>>)
         < Dist2(latlng, <<route[Max(best, 1)].lat, route[Max(best, 1)].lng>>)

\* the loop of lines 764-769 from waypoint pos on, best the waypoint the
\* best altitude is of
RECURSIVE nearest_altitude_scan(_, _, _, _)
nearest_altitude_scan(latlng, route, pos, best) ==
    IF pos > Len(route) THEN best
    ELSE IF nearer(latlng, route, pos, best)
    THEN nearest_altitude_scan(latlng, route, pos + 1, pos)
    ELSE nearest_altitude_scan(latlng, route, pos + 1, best)

AltitudeAt(route, best) == IF best = 0 THEN "" ELSE route[best].altitude

find_nearest_altitude(lat, lng, route) ==
    AltitudeAt(route, nearest_altitude_scan(<<lat, lng>>, route, 1, 0))

\* the list dumped to offset_route.json for route, a list of (lat, lng)
save_outputs(route, waypoints) ==
    Tuple([k \in 1..Len(route) |->
        [lat |-> route[k][1], lng |-> route[k][2],
         altitude |-> find_nearest_altitude(route[k][1], route[k][2], waypoints)]])

----------------------------------------------------------------------------
(* MissionManager.__init__ and run: one action per stage of run *)

VARIABLES
    route_pts,     \* MissionManager.route_pts: the waypoints [lat, lng, altitude]
    polygons_wgs,  \* MissionManager.polygons_wgs: the rings, coordinates <<lng, lat>>
    offset,        \* MissionManager.offset
    disc_points,   \* MissionManager.disc_points
    final_route,   \* MissionManager.final_route
    offset_route,  \* the content written to offset_route.json
    nudged,        \* per offset point: made by the epsilon nudge (observation only)
    fp,            \* the floating-point outcomes that exact arithmetic leaves open
    pc,            \* MissionManager.run: the stage reached
    call,          \* a direct call of one of the module's functions: name and arguments
    ret,           \* its result, once it has returned
    served,        \* the mission document that the mission URL returns
    posts,         \* how many missions were posted to the mediator
    reqs,          \* per invocation: the request, the stage reached, its manager, its answer
    files,         \* mission_map.html and offset_route.json in the static folder
    now            \* the clock

vars == <<route_pts, polygons_wgs, offset, disc_points, final_route, offset_route,
          nudged, fp, pc, call, ret, served, posts, reqs, files, now>>

\* MissionManager.polygons_utm, line 356
polygons_utm == Tuple([k \in 1..Len(polygons_wgs) |-> poly_to_utm(polygons_wgs[k])])

NoCall == [fn |-> "none"]

NoReturn == [done |-> FALSE, value |-> <<>>]

Returned(v) == [done |-> TRUE, value |-> v]

\* line 426
ClassifyPoints ==
    /\ pc = "init"
    /\ IF classify_raises(route_pts, polygons_wgs)
       THEN pc' = "raised" /\ UNCHANGED disc_points
       ELSE \E corrected \in {CorrectAll(segments_of(route_line(route_pts)), polygons_wgs,
                                          fp.tie_first)} :
            \E line \in {corrected_route_m(corrected)} :
            \E disc_pts_m \in {gen_points(line, STEP)} :
               /\ disc_points' = ClassifySamples(disc_pts_m, original_route_m(route_pts))
               /\ pc' = "classified"
    /\ UNCHANGED <<route_pts, polygons_wgs, offset, final_route, offset_route, nudged, fp,
                   call, ret, served, posts, reqs,
                   files, now>>

SetOffsets(tagged) ==
    /\ final_route' = Tuple([k \in 1..Len(tagged) |-> tagged[k].pt])
    /\ nudged' = Tuple([k \in 1..Len(tagged) |-> tagged[k].nudge])

\* line 427
BuildOffsets ==
    /\ pc = "classified"
    /\ SetOffsets(build_offsets(disc_points, polygons_utm, offset, fp.residue))
    /\ pc' = "offsets"
    /\ UNCHANGED <<route_pts, polygons_wgs, offset, disc_points, offset_route, fp, call, ret, served, posts, reqs,
                   files, now>>

\* line 430
ReduceRoute ==
    /\ pc = "offsets"
    /\ final_route' = reduce_route(final_route, (95 * U) \div 100)
    /\ pc' = "reduced"
    /\ UNCHANGED <<route_pts, polygons_wgs, offset, disc_points, offset_route, nudged, fp,
                   call, ret, served, posts, reqs,
                   files, now>>

\* line 432
RemoveLoops ==
    /\ pc = "reduced"
    /\ final_route' = remove_loops_composite(final_route, 2 * U, 150)
    /\ pc' = "loops_removed"
    /\ UNCHANGED <<route_pts, polygons_wgs, offset, disc_points, offset_route, nudged, fp,
                   call, ret, served, posts, reqs,
                   files, now>>

\* line 434
SmoothRoute ==
    /\ pc = "loops_removed"
    /\ final_route' = smooth_route(final_route, 5)
    /\ pc' = "smoothed"
    /\ UNCHANGED <<route_pts, polygons_wgs, offset, disc_points, offset_route, nudged, fp,
                   call, ret, served, posts, reqs,
                   files, now>>

\* lines 436-437
SaveOutputs ==
    /\ pc = "smoothed"
    /\ offset_route' = save_outputs(Tuple([k \in 1..Len(final_route) |->
                                        utm_to_wgs(final_route[k][1], final_route[k][2])]),
                                    route_pts)
    /\ pc' = "saved"
    /\ UNCHANGED <<route_pts, polygons_wgs, offset, disc_points, final_route, nudged, fp,
                   call, ret, served, posts, reqs,
                   files, now>>

----------------------------------------------------------------------------
(* The missions *)

\* the waypoint at <<x, y>> of the planar grid, with altitude alt
Waypoint(x, y, alt) == [lat |-> y + Lat0, lng |-> x + Lng0, altitude |-> alt]

\* a route through the grid points pts; waypoint k flies at altitude 10 * k
RouteThrough(pts) == Tuple([k \in 1..Len(pts) |-> Waypoint(pts[k][1], pts[k][2], 10 * k)])

RingOf(x1, y1, x2, y2, ccw) ==
    IF ccw THEN <<<<x1, y1>>, <<x2, y1>>, <<x2, y2>>, <<x1, y2>>, <<x1, y1>>>>
    ELSE <<<<x1, y1>>, <<x1, y2>>, <<x2, y2>>, <<x2, y1>>, <<x1, y1>>>>

ToWgs(ring) == Tuple([k \in 1..Len(ring) |-> <<ring[k][1] + Lng0, ring[k][2] + Lat0>>])

\* the ring of the rectangle [x1, x2] x [y1, y2] from its corner <<x1, y1>>,
\* counter-clockwise or clockwise, in geodetic coordinates <<lng, lat>>
Rectangle(x1, y1, x2, y2, ccw) == ToWgs(RingOf(x1, y1, x2, y2, ccw))

\* the no-fly rectangle of the missions, in metres
RectW == 10

RectH == 6

\* how far, in metres, the routes start before the rectangle
Approach == 5

\* the straight routes through the centre of the rectangle w x h, from a
\* before it to a behind it
CentreRoutesOf(w, h, a) ==
    { <<<<-a, h \div 2>>, <<w + a, h \div 2>>>>,
      <<<<w + a, h \div 2>>, <<-a, h \div 2>>>>,
      <<<<w \div 2, -a>>, <<w \div 2, h + a>>>> }

CentreRoutes == CentreRoutesOf(RectW * U, RectH * U, Approach * U)

\* routes that cross off the centre, pass by, pass far away, start inside,
\* end on the rectangle's corner, and turn behind the rectangle
OtherRoutesOf(w, h, a) ==
    { <<<<-a, U>>, <<w + a, U>>>>,
      <<<<-a, h - U>>, <<w + a, h - U>>>>,
      <<<<-a, -U>>, <<w + a, -U>>>>,
      <<<<-a, -3 * a>>, <<w + a, -3 * a>>>>,
      <<<<w \div 2, h \div 2>>, <<w + a, h \div 2>>>>,
      <<<<-a, 0>>, <<0, 0>>>>,
      <<<<-a, h \div 2>>, <<w + a, h \div 2>>, <<w + a, h + a>>>> }

OtherRoutes == OtherRoutesOf(RectW * U, RectH * U, Approach * U)

PolygonSets ==
    { <<Rectangle(0, 0, RectW * U, RectH * U, TRUE)>>,
      <<Rectangle(0, 0, RectW * U, RectH * U, FALSE)>> }

Offsets == {3 * U}

Missions ==
    {m \in [route : CentreRoutes \cup OtherRoutes, polygons : PolygonSets, offset : Offsets,
            tie_first : BOOLEAN, residue : {0, 1}] :
        m.tie_first => m.route \in CentreRoutes}

Init ==
    /\ \E m \in Missions :
          /\ route_pts = RouteThrough(m.route)
          /\ polygons_wgs = m.polygons
          /\ offset = m.offset
          /\ fp = [tie_first |-> m.tie_first, residue |-> m.residue]
    /\ disc_points = <<>>
    /\ final_route = <<>>
    /\ offset_route = <<>>
    /\ nudged = <<>>
    /\ pc = "init"
    /\ call = NoCall
    /\ ret = NoReturn
    /\ served = <<>>
    /\ posts = 0
    /\ reqs = <<>>
    /\ files = <<>>
    /\ now = 0

Next ==
    \/ ClassifyPoints
    \/ BuildOffsets
    \/ ReduceRoute
    \/ RemoveLoops
    \/ SmoothRoute
    \/ SaveOutputs

Spec == Init /\ [][Next]_vars

----------------------------------------------------------------------------
(* Direct calls of the module's functions, one call per behaviour *)

\* the longest route a direct call is given
MaxRouteLen == 4

\* all routes of 0..n points over the point set P
RoutesOver(P, n) == UNION {[1..m -> P] : m \in 0..n}

\* points along one line at spacings around the thresholds, and one off it
ReducePoints == {<<0, 0>>, <<0, 500>>, <<0, 950>>, <<0, 1900>>, <<700, 0>>}

\* points of a route that runs out and comes back on itself, and one beside it
LoopPoints == {<<0, 0>>, <<0, 10 * U>>, <<0, 20 * U>>, <<0, 10 * U + 1>>, <<0, 1>>, <<U, 5 * U>>}

\* the route (0,0), (0,10), (0,20), (0,10.001), (0,0.001)
OutAndBack == <<<<0, 0>>, <<0, 10 * U>>, <<0, 20 * U>>, <<0, 10 * U + 1>>, <<0, 1>>>>

\* waypoints on a square, so that points of the grid have several nearest
Corners == {<<0, 0>>, <<2 * U, 0>>, <<0, 2 * U>>, <<2 * U, 2 * U>>}

GridPoints == {<<x * U, y * U>> : x \in 0..2, y \in 0..2}

FnInit ==
    /\ route_pts = <<>>
    /\ polygons_wgs = <<>>
    /\ offset = 0
    /\ fp = [tie_first |-> FALSE, residue |-> 0]
    /\ disc_points = <<>>
    /\ final_route = <<>>
    /\ offset_route = <<>>
    /\ nudged = <<>>
    /\ pc = "idle"
    /\ call = NoCall
    /\ ret = NoReturn
    /\ served = <<>>
    /\ posts = 0
    /\ reqs = <<>>
    /\ files = <<>>
    /\ now = 0

\* the variables of a run, which a direct call leaves alone
run_vars == <<route_pts, polygons_wgs, offset, disc_points, final_route, offset_route, nudged, fp, pc,
              served, posts, reqs, files, now>>

CallInterpolateOffset ==
    /\ call = NoCall
    /\ \E s \in GridPoints, b \in GridPoints,
          d \in {0, TOLERANCE_DOWN, (TOLERANCE_DOWN + TOLERANCE_UP) \div 2, TOLERANCE_UP - 50,
                 TOLERANCE_UP, 2 * U} :
           /\ call' = [fn |-> "interpolate_offset", safe_offset |-> s, boundary_offset |-> b,
                       dist |-> d]
           /\ ret' = Returned(interpolate_offset(s, b, d, TOLERANCE_DOWN, TOLERANCE_UP))
    /\ UNCHANGED run_vars

CallReduceRoute ==
    /\ call = NoCall
    /\ \E route \in RoutesOver(ReducePoints, MaxRouteLen), m \in {(95 * U) \div 100, 2 * U} :
           /\ call' = [fn |-> "reduce_route", route |-> route, min_distance_m |-> m]
           /\ ret' = Returned(reduce_route(route, m))
    /\ UNCHANGED run_vars

CallRemoveLoops ==
    /\ call = NoCall
    /\ \E route \in RoutesOver(LoopPoints, MaxRouteLen) \cup {OutAndBack} :
           /\ call' = [fn |-> "remove_loops_composite", route |-> route,
                       distance_threshold |-> 2 * U, angle_threshold |-> 150]
           /\ ret' = Returned(remove_loops_composite(route, 2 * U, 150))
    /\ UNCHANGED run_vars

\* _save_outputs for a two-point route, the waypoints a route over Corners
CallSaveOutputs ==
    /\ call = NoCall
    /\ \E p \in GridPoints, q \in GridPoints, pts \in RoutesOver(Corners, 3) :
           /\ call' = [fn |-> "save_outputs", route |-> <<p, q>>, waypoints |-> RouteThrough(pts)]
           /\ ret' = Returned(save_outputs(<<utm_to_wgs(p[1], p[2]), utm_to_wgs(q[1], q[2])>>,
                                        RouteThrough(pts)))
    /\ UNCHANGED run_vars

\* points inside, on and outside the square (0,0)-(2,2) m
ProbePoints == {<<x * U, y * U>> : x \in -1..3, y \in -1..3}

SquareRings == {RingOf(0, 0, 2 * U, 2 * U, ccw) : ccw \in BOOLEAN}

CallIsValid ==
    /\ call = NoCall
    /\ \E pt \in ProbePoints, poly \in SquareRings :
           /\ call' = [fn |-> "is_valid", pt |-> pt, poly |-> poly]
           /\ ret' = Returned(is_valid(pt, poly))
    /\ UNCHANGED run_vars

\* the rectangle of the missions, in metres
RectangleRings == {RingOf(0, 0, RectW * U, RectH * U, ccw) : ccw \in BOOLEAN}

\* samples beside, on and at a corner of the rectangle, up to 8 m from it
SamplePoints ==
    {<<x * U, y * U>> : x \in {-8, -5, -1, 0, 4}, y \in {-8, -2, 0, 3}}

CallComputeSafeOffset ==
    /\ call = NoCall
    /\ \E pt \in SamplePoints, ring \in RectangleRings, off \in {2 * U, 3 * U},
          residue \in {0, 1} :
           /\ call' = [fn |-> "compute_safe_offset", pt |-> pt, polygons_utm |-> <<ring>>,
                       offset |-> off, residue |-> residue]
           /\ ret' = Returned(compute_safe_offset(utm_to_wgs(pt[1], pt[2]), <<ring>>, off,
                                                  residue))
    /\ UNCHANGED run_vars

\* how far, in metres, a segment starts before and ends behind the rectangle
Overhangs == {1, 5, 30}

\* the two-point segments that cross the rectangle from west to east or back
\* at the height y, in geodetic coordinates <<lng, lat>>
CrossingsAt(y) ==
    UNION {{<<<<Lng0 - a * U, Lat0 + y>>, <<Lng0 + (RectW + b) * U, Lat0 + y>>>>,
            <<<<Lng0 + (RectW + b) * U, Lat0 + y>>, <<Lng0 - a * U, Lat0 + y>>>>} :
           a \in Overhangs, b \in Overhangs}

CallCorrectSegment ==
    /\ call = NoCall
    /\ \E y \in {U, (RectH * U) \div 2}, polygons \in PolygonSets, tie_first \in BOOLEAN :
       \E segment \in CrossingsAt(y) :
           /\ call' = [fn |-> "correct_segment", segment |-> segment, polygons |-> polygons,
                       tie_first |-> tie_first]
           /\ ret' = Returned(correct_segment(segment, polygons, tie_first))
    /\ UNCHANGED run_vars

\* the longest route that smooth_route is called with
MaxSmoothLen == 7

\* point k of a winding path of shape s
PathPoint(k, s) == <<k * U + ((7 * k * s) % 11), ((k * k * s) % 5) * U>>

\* the first n points of the path of shape s
PathOf(n, s) == Tuple([k \in 1..n |-> PathPoint(k, s)])

CallSmoothRoute ==
    /\ call = NoCall
    /\ \E n \in 0..MaxSmoothLen, s \in 1..3, window_size \in {0, 1, 2, 3, 5} :
           /\ call' = [fn |-> "smooth_route", route |-> PathOf(n, s),
                       window_size |-> window_size]
           /\ ret' = Returned(smooth_route(PathOf(n, s), window_size))
    /\ UNCHANGED run_vars

\* the longest leg, in metres, of a line that gen_points is called with
MaxLeg == 3

\* leg lengths at, just below, just above and between the multiples of the steps
LegLengths == {0, 1, 400, U - 1, U, U + 1, (5 * U) \div 2, MaxLeg * U}

\* straight lines and lines with one corner
WalkLines ==
    {<<<<0, 0>>, <<l, 0>>>> : l \in LegLengths}
      \cup {<<<<0, 0>>, <<l, 0>>, <<l, m>>>> : l \in LegLengths, m \in LegLengths}

CallGenPoints ==
    /\ call = NoCall
    /\ \E line \in WalkLines, step \in {STEP, 400} :
           /\ call' = [fn |-> "gen_points", line |-> line, step |-> step]
           /\ ret' = Returned(gen_points(line, step))
    /\ UNCHANGED run_vars

\* the most boundary samples in a group that is shifted by a direct call
MaxGroup == 5

\* n points 1 m apart on the lower edge of the rectangle, from x = 2 m on
EdgeGroup(n) == Tuple([k \in 1..n |-> <<(k + 1) * U, 0>>])

\* n points 1 m apart that run into the lower right corner and up from it
CornerGroup(n) ==
    Tuple([k \in 1..n |-> IF k <= 2 THEN <<(RectW - 2 + k) * U, 0>>
                          ELSE <<RectW * U, (k - 2) * U>>])

\* the loop of lines 540-587 over one group of boundary samples, all of them
\* further than TOLERANCE_UP from the original route; the mission holds the
\* rectangle alone or a square 20 m away from it before the rectangle
CallShiftGroup ==
    /\ call = NoCall
    /\ \E n \in 1..MaxGroup, ccw \in BOOLEAN, base_offset \in {2 * U, 3 * U} :
       \E seg_utm \in {EdgeGroup(n), CornerGroup(n)} :
       \E polys \in {<<poly_to_utm(Rectangle(0, 0, RectW * U, RectH * U, ccw))>>,
                      <<poly_to_utm(Rectangle(-30 * U, -30 * U, -20 * U, -20 * U, ccw)),
                        poly_to_utm(Rectangle(0, 0, RectW * U, RectH * U, ccw))>>} :
           /\ call' = [fn |-> "shift_group", seg_utm |-> seg_utm, polygons_utm |-> polys,
                       offset |-> base_offset]
           /\ ret' = Returned(shift_group(<<>>, seg_utm, Tuple([k \in 1..n |-> 2 * U]), polys,
                                          base_offset, 0, buffer(polys[1], base_offset)))
    /\ UNCHANGED run_vars

FnNext ==
    \/ CallInterpolateOffset
    \/ CallReduceRoute
    \/ CallRemoveLoops
    \/ CallSaveOutputs
    \/ CallIsValid
    \/ CallComputeSafeOffset
    \/ CallCorrectSegment
    \/ CallSmoothRoute
    \/ CallGenPoints
    \/ CallShiftGroup

SpecFn == FnInit /\ [][FnNext]_vars

----------------------------------------------------------------------------
(* The two services: POST /process-route of the mediator, POST /compute-route *)
(* of the mission handler, MissionManager.from_server and adjust_route        *)

\* JSON values of a request body; a number is held in the model's unit
Number(n) == [kind |-> "number", n |-> n, chars |-> <<>>]

Text(chars) == [kind |-> "string", n |-> 0, chars |-> chars]

Null == [kind |-> "null", n |-> 0, chars |-> <<>>]

List == [kind |-> "list", n |-> 0, chars |-> <<>>]

Object == [kind |-> "object", n |-> 0, chars |-> <<>>]

Digits == <<"0", "1", "2", "3", "4", "5", "6", "7", "8", "9">>

IsDigit(c) == \E d \in 1..10 : Digits[d] = c

DigitOf(c) == (CHOOSE d \in 1..10 : Digits[d] = c) - 1

RECURSIVE DecimalOf(_)
DecimalOf(chars) ==
    IF chars = <<>> THEN 0
    ELSE 10 * DecimalOf(SubSeq(chars, 1, Len(chars) - 1)) + DigitOf(chars[Len(chars)])

\* Python's float(v): a number converts, a string of digits is parsed, any
\* other string raises ValueError, and null, a list or an object raise TypeError
python_float(v) ==
    CASE v.kind = "number" -> [raises |-> "", value |-> v.n]
      [] v.kind = "string" ->
            IF v.chars # <<>> /\ \A k \in 1..Len(v.chars) : IsDigit(v.chars[k])
            THEN [raises |-> "", value |-> DecimalOf(v.chars) * U]
            ELSE [raises |-> "ValueError", value |-> 0]
      [] OTHER -> [raises |-> "TypeError", value |-> 0]

NoOffset == [has_offset |-> FALSE, offset |-> Null]

WithOffset(v) == [has_offset |-> TRUE, offset |-> v]

\* data.get("offset", 3.0)
get_offset(data) == IF data.has_offset THEN data.offset ELSE Number(3 * U)

\* the except clause of process_route catches ValueError alone
mediator_catches(raised) == raised = "ValueError"

\* the bare except clause of compute_route catches every exception
handler_catches(raised) == raised # ""

Required == {"droneData", "routePoints", "savedPolygons"}

\* a mission document: the keys it has, and their values
MissionDoc(keys, drone, route, polygons) ==
    [keys |-> keys,
     droneData |-> IF "droneData" \in keys THEN drone ELSE <<>>,
     routePoints |-> IF "routePoints" \in keys THEN route ELSE <<>>,
     savedPolygons |-> IF "savedPolygons" \in keys THEN polygons ELSE <<>>]

\* mission_mediator._normalize: every key is there, a missing one with its
\* empty value
normalize(data) == MissionDoc(Required, data.droneData, data.routePoints, data.savedPolygons)

\* MissionManager.__init__
NewManager(drone, route_pts_, polygons_geojson, offset_) ==
    [drone |-> drone, route_pts |-> route_pts_, polygons_wgs |-> polygons_geojson,
     offset |-> offset_, disc_points |-> <<>>, final_route |-> <<>>, started |-> FALSE]

NoManager == NewManager(<<>>, <<>>, <<>>, 0)

\* MissionManager.from_server on the document the mission URL returns
from_server(data) ==
    IF ~(Required \subseteq data.keys)
    THEN [raises |-> "ValueError", manager |-> NoManager]
    ELSE [raises |-> "",
          manager |-> NewManager(data.droneData, data.routePoints, data.savedPolygons, 3 * U)]

\* MissionManager.polygons_utm of one manager
manager_polygons_utm(manager) ==
    Tuple([k \in 1..Len(manager.polygons_wgs) |-> poly_to_utm(manager.polygons_wgs[k])])

\* one manager that every invocation runs
shared_manager(rs, i) == rs[1].manager

\* the manager that the invocation i of adjust_route runs: its local variable
manager_of(rs, i) == rs[i].manager

\* MissionManager._save_map: the map is centred on the drone and holds the
\* polygons, the waypoints, and one feature per route point whose time runs
\* in steps of 2 s from the clock reading start (lines 865-879)
save_map(manager, route, start) ==
    [location |-> manager.drone,
     polygons |-> manager.polygons_wgs,
     waypoints |-> manager.route_pts,
     features |-> Tuple([k \in 1..Len(route) |->
                     [coordinates |-> <<route[k][2], route[k][1]>>,
                      time |-> start + 2 * (k - 1)]])]

\* the answer of compute_route to its caller: process_route turns every
\* failure of the handler into 502 (raise_for_status, lines 174-183)
Answer(r, status, error) ==
    IF r.via = "mediator" /\ r.at # "mediator"
    THEN [r EXCEPT !.at = "answered", !.status = 502, !.error = "HTTPError"]
    ELSE [r EXCEPT !.at = "answered", !.status = status, !.error = error]

Ids == {1, 2}

\* the first request comes through the mediator, the second goes to the
\* mission handler directly
ViaOf(i) == IF i = 1 THEN "mediator" ELSE "handler"

Bodies ==
    {NoOffset} \cup
    {WithOffset(v) : v \in {Number(2 * U), Text(<<"3">>), Text(<<"a", "b", "c">>),
                            Null, List, Object}}

NewRequest(i, body) ==
    [via |-> ViaOf(i), body |-> body, at |-> ViaOf(i), manager |-> NoManager,
     fetched |-> MissionDoc({}, <<>>, <<>>, <<>>), status |-> 0, error |-> "",
     map |-> <<>>, json |-> <<>>, route_points |-> <<>>]

\* how many times a mission is posted to the mediator
MaxPosts == 1

\* the last reading of the clock
MaxClock == 1

DroneAt == <<Lat0, Lng0>>

\* a route that passes the rectangle's corner 1 m below it, and one that ends on it
PassBy == RouteThrough(<<<<-2 * U, -U>>, <<2 * U, -U>>>>)

ToCorner == RouteThrough(<<<<-3 * U, 0>>, <<0, 0>>>>)

Mission1 == MissionDoc(Required, DroneAt, PassBy, <<Rectangle(0, 0, RectW * U, RectH * U, TRUE)>>)

Mission2 == MissionDoc(Required, DroneAt, ToCorner, <<Rectangle(0, 0, RectW * U, RectH * U, FALSE)>>)

\* what the mission URL returns at the start: a mission, or a document
\* without its route from a server that does not normalise
ServedAtStart ==
    {Mission1, MissionDoc(Required \ {"routePoints"}, DroneAt, <<>>, Mission1.savedPolygons)}

\* the documents posted to the mediator
Posted ==
    {Mission2,
     MissionDoc(Required \ {"routePoints"}, DroneAt, <<>>, Mission1.savedPolygons),
     MissionDoc(Required \ {"savedPolygons"}, DroneAt, PassBy, <<>>),
     MissionDoc(Required \ {"droneData"}, <<>>, ToCorner, Mission2.savedPolygons)}

NoFiles == [map |-> <<>>, json |-> <<>>]

SvcInit ==
    /\ route_pts = <<>>
    /\ polygons_wgs = <<>>
    /\ offset = 0
    /\ fp = [tie_first |-> FALSE, residue |-> 1]
    /\ disc_points = <<>>
    /\ final_route = <<>>
    /\ offset_route = <<>>
    /\ nudged = <<>>
    /\ pc = "idle"
    /\ call = NoCall
    /\ ret = NoReturn
    /\ served \in ServedAtStart
    /\ posts = 0
    /\ reqs \in {[i \in Ids |-> NewRequest(i, b[i])] : b \in [Ids -> Bodies]}
    /\ files = NoFiles
    /\ now = 0

\* the variables of the one-manager run and of the direct calls
flat_vars == <<route_pts, polygons_wgs, offset, disc_points, final_route, offset_route,
               nudged, fp, pc, call, ret>>

\* mission_mediator.mission_endpoint, POST: lines 63-67
PostMission ==
    /\ posts < MaxPosts
    /\ \E raw \in Posted : served' = normalize(raw)
    /\ posts' = posts + 1
    /\ UNCHANGED <<flat_vars, reqs, files, now>>

\* mission_mediator.process_route up to its call of /compute-route
ProcessRoute(i) ==
    /\ reqs[i].at = "mediator"
    /\ \E f \in {python_float(get_offset(reqs[i].body))} :
          reqs' = [reqs EXCEPT ![i] =
              IF f.raises = "" THEN [@ EXCEPT !.at = "handler",
                                              !.body = WithOffset(Number(f.value))]
              ELSE IF mediator_catches(f.raises) THEN Answer(@, 400, "Bad offset")
              ELSE Answer(@, 500, f.raises)]
    /\ UNCHANGED <<flat_vars, served, posts, files, now>>

\* app.compute_route up to MissionManager.run: the offset is parsed, then
\* adjust_route fetches the mission and sets the manager's offset
ComputeRoute(i) ==
    /\ reqs[i].at = "handler"
    /\ \E f \in {python_float(get_offset(reqs[i].body))}, got \in {from_server(served)} :
          reqs' = [reqs EXCEPT ![i] =
              IF handler_catches(f.raises) THEN Answer(@, 400, "Bad offset")
              ELSE IF got.raises # "" THEN Answer([@ EXCEPT !.fetched = served], 500, got.raises)
              ELSE [@ EXCEPT !.at = "init", !.fetched = served,
                             !.manager = [got.manager EXCEPT !.offset = f.value]]]
    /\ UNCHANGED <<flat_vars, served, posts, files, now>>

\* the samples that _classify_points leaves in disc_points when it does not raise
classify_points(waypoints, polygons, tie_first) ==
    IF Len(waypoints) = 0 THEN <<>>
    ELSE ClassifySamples(
             gen_points(corrected_route_m(
                 CorrectAll(segments_of(route_line(waypoints)), polygons, tie_first)), STEP),
             original_route_m(waypoints))

\* MissionManager._classify_points of invocation i. A route without points
\* gives, by the geometry library, an error or no samples.
Classify(i) ==
    /\ reqs[i].at = "init"
    /\ \E m \in {manager_of(reqs, i)} :
       \E raised \in (IF Len(m.route_pts) = 0 THEN BOOLEAN
                      ELSE {classify_raises(m.route_pts, m.polygons_wgs)}) :
          reqs' = [reqs EXCEPT ![i] =
              IF raised
              THEN Answer([@ EXCEPT !.manager = [m EXCEPT !.started = TRUE]], 500, "GeometryError")
              ELSE [@ EXCEPT !.at = "classified",
                             !.manager = [m EXCEPT !.started = TRUE, !.disc_points =
                                 classify_points(m.route_pts, m.polygons_wgs, fp.tie_first)]]]
    /\ UNCHANGED <<flat_vars, served, posts, files, now>>

\* the points of the tagged offsets
PointsOf(tagged) == Tuple([k \in 1..Len(tagged) |-> tagged[k].pt])

\* MissionManager._build_offsets of invocation i
BuildOffsetsOf(i) ==
    /\ reqs[i].at = "classified"
    /\ \E m \in {manager_of(reqs, i)} :
          reqs' = [reqs EXCEPT ![i] =
              [@ EXCEPT !.at = "offsets",
                        !.manager = [m EXCEPT !.final_route =
                            PointsOf(build_offsets(m.disc_points, manager_polygons_utm(m),
                                                   m.offset, fp.residue))]]]
    /\ UNCHANGED <<flat_vars, served, posts, files, now>>

\* MissionManager.run, lines 430-434: the offsets reduced, freed of loops, smoothed
cleaned_route(route) ==
    smooth_route(remove_loops_composite(reduce_route(route, (95 * U) \div 100), 2 * U, 150), 5)

\* the route in geodetic coordinates, lines 436-437
RouteWgs(route) == Tuple([k \in 1..Len(route) |-> utm_to_wgs(route[k][1], route[k][2])])

\* the rest of MissionManager.run of invocation i: the route is cleaned, then
\* _save_outputs writes the map, which reads the drone's position and the
\* clock, and offset_route.json
Save(i) ==
    /\ reqs[i].at = "offsets"
    /\ \E m \in {manager_of(reqs, i)} :
       \E route \in {cleaned_route(m.final_route)} :
          IF m.drone = <<>>
          THEN /\ reqs' = [reqs EXCEPT ![i] =
                      Answer([@ EXCEPT !.manager = [m EXCEPT !.final_route = route]],
                             500, "KeyError")]
               /\ UNCHANGED <<files, now>>
          ELSE \E t \in now..MaxClock :
               \E written \in {[map |-> save_map(m, RouteWgs(route), t),
                                json |-> save_outputs(RouteWgs(route), m.route_pts)]} :
                  /\ files' = written
                  /\ now' = t
                  /\ reqs' = [reqs EXCEPT ![i] =
                         [@ EXCEPT !.at = "saved",
                                   !.manager = [m EXCEPT !.final_route = route],
                                   !.map = written.map,
                                   !.json = written.json]]
    /\ UNCHANGED <<flat_vars, served, posts>>

\* compute_route answers success; process_route then fetches offset_route.json
Respond(i) ==
    /\ reqs[i].at = "saved"
    /\ reqs' = [reqs EXCEPT ![i] =
           [@ EXCEPT !.at = "answered", !.status = 200,
                     !.route_points = IF reqs[i].via = "mediator" THEN files.json ELSE <<>>]]
    /\ UNCHANGED <<flat_vars, served, posts, files, now>>

SvcNext ==
    \/ PostMission
    \/ \E i \in Ids : ProcessRoute(i)
    \/ \E i \in Ids : ComputeRoute(i)
    \/ \E i \in Ids : Classify(i)
    \/ \E i \in Ids : BuildOffsetsOf(i)
    \/ \E i \in Ids : Save(i)
    \/ \E i \in Ids : Respond(i)

SpecSvc == SvcInit /\ [][SvcNext]_vars

----------------------------------------------------------------------------
(* Properties of the offset route *)

\* p lies in the rectangle of the ring or on its boundary
InOrOn(p, ring) ==
    /\ MinX(ring) <= p[1] /\ p[1] <= MaxX(ring)
    /\ MinY(ring) <= p[2] /\ p[2] <= MaxY(ring)

Outside(p, polygons) == \A j \in 1..Len(polygons) : ~InOrOn(p, polygons[j])

\* C1: every offset point of _build_offsets lies strictly outside every
\* polygon of the mission unless the epsilon nudge made it
C1_OffsetsOutside ==
    pc = "offsets" =>
        \A k \in 1..Len(final_route) : nudged[k] \/ Outside(final_route[k], polygons_utm)

\* the planar grid points of the waypoints
WaypointsM == Tuple([k \in 1..Len(route_pts) |-> <<route_pts[k].lng - Lng0, route_pts[k].lat - Lat0>>])

\* the route is one of the straight routes through the rectangle's centre
CentreMission == WaypointsM \in CentreRoutes

AllOutside(route) == \A k \in 1..Len(route) : Outside(route[k], polygons_utm)

\* C2: for one rectangle and a straight route through its centre, offset 3 and
\* step 1, no point of the final route that run emits is inside or on the
\* polygon
C2_FinalOutside ==
    (pc \in {"smoothed", "saved"} /\ CentreMission) => AllOutside(final_route)

Within(p, q, m) == Dist2(p, q) <= m * m

\* C3: when the first and the last waypoint are outside the polygon, the first
\* and the last point of the final route are within 1 m of them
C3_EndpointsKept ==
    (/\ pc \in {"smoothed", "saved"}
     /\ Outside(WaypointsM[1], polygons_utm)
     /\ Outside(LastOf(WaypointsM), polygons_utm))
    => /\ final_route # <<>>
       /\ Within(final_route[1], WaypointsM[1], U)
       /\ Within(LastOf(final_route), LastOf(WaypointsM), U)

----------------------------------------------------------------------------
(* Properties of the classification *)

InBand(d) == TOLERANCE_DOWN <= d /\ d <= TOLERANCE_UP

\* C4: a sample is safe when d < T_down, boundary when d > T_up, and otherwise
\* has the label of the sample before it, the first sample safe; a label
\* differs from the one before it only when d < T_down or d > T_up
C4_Hysteresis ==
    \A k \in 1..Len(disc_points) :
        /\ disc_points[k].dist < TOLERANCE_DOWN => disc_points[k].type = "safe"
        /\ disc_points[k].dist > TOLERANCE_UP => disc_points[k].type = "boundary"
        /\ InBand(disc_points[k].dist) =>
              disc_points[k].type = IF k = 1 THEN "safe" ELSE disc_points[k - 1].type
        /\ (k > 1 /\ disc_points[k].type # disc_points[k - 1].type) => ~InBand(disc_points[k].dist)

\* a run with a safe sample and a boundary sample that lie inside the band
C4_Witness ==
    /\ pc = "classified"
    /\ \E k \in 2..Len(disc_points) :
          InBand(disc_points[k].dist) /\ disc_points[k].type = "safe"
    /\ \E k \in 2..Len(disc_points) :
          InBand(disc_points[k].dist) /\ disc_points[k].type = "boundary"

----------------------------------------------------------------------------
(* Properties of the functions called directly *)

MidBand == (TOLERANCE_DOWN + TOLERANCE_UP) \div 2

\* C5: interpolate_offset returns the safe offset at d = T_down, the boundary
\* offset at d = T_up, and at the midpoint of the two the mean of the two
\* offsets in each coordinate
C5_InterpolateAtThresholds ==
    call.fn = "interpolate_offset" =>
        /\ call.dist = TOLERANCE_DOWN => ret.value = call.safe_offset
        /\ call.dist = TOLERANCE_UP => ret.value = call.boundary_offset
        /\ call.dist = MidBand =>
              \A c \in 1..2 : 2 * ret.value[c] = call.safe_offset[c] + call.boundary_offset[c]

\* a call at the midpoint with two different offsets
C5_Witness ==
    /\ call.fn = "interpolate_offset"
    /\ call.dist = MidBand
    /\ call.safe_offset = <<0, 0>>
    /\ call.boundary_offset = <<2 * U, U>>
    /\ ret.value = <<U, U \div 2>>

\* C6: any two consecutive points of the result of reduce_route are at least
\* min_distance_m apart
C6_ReducedSpacing ==
    call.fn = "reduce_route" =>
        \A k \in 1..(Len(ret.value) - 1) :
            Dist2(ret.value[k], ret.value[k + 1]) >= call.min_distance_m * call.min_distance_m

\* a call that drops a point 0.5 m after the first and keeps the two after it
C6_Witness ==
    /\ call.fn = "reduce_route"
    /\ call.min_distance_m = (95 * U) \div 100
    /\ call.route = <<<<0, 0>>, <<0, 500>>, <<0, 950>>, <<0, 1900>>>>
    /\ ret.value = <<<<0, 0>>, <<0, 950>>, <<0, 1900>>>>

\* sub is s with some of its elements left out
RECURSIVE IsSubsequence(_, _)
IsSubsequence(sub, s) ==
    IF sub = <<>> THEN TRUE
    ELSE IF s = <<>> THEN FALSE
    ELSE IF Head(sub) = Head(s) THEN IsSubsequence(Tail(sub), Tail(s))
    ELSE IsSubsequence(sub, Tail(s))

\* C7: the result of reduce_route is its input with some points left out:
\* the kept points are input points in their input order
C7_ReducedSubsequence ==
    call.fn = "reduce_route" => IsSubsequence(ret.value, call.route)

\* a call on a route that turns back, of which the first and the last two
\* points are kept
C7_Witness ==
    /\ call.fn = "reduce_route"
    /\ call.route = <<<<0, 1900>>, <<0, 950>>, <<0, 500>>, <<0, 0>>>>
    /\ ret.value = <<<<0, 1900>>, <<0, 950>>, <<0, 0>>>>

OutAndBackCall ==
    /\ call.fn = "remove_loops_composite"
    /\ call.route = OutAndBack
    /\ call.distance_threshold = 2 * U
    /\ call.angle_threshold = 150

\* C8: remove_loops_composite on (0,0), (0,10), (0,20), (0,10.001), (0,0.001)
\* with thresholds 2.0 and 150 returns the three points (0,0), (0,10),
\* (0,0.001)
C8_ThreePoints ==
    OutAndBackCall => ret.value = <<<<0, 0>>, <<0, 10 * U>>, <<0, 1>>>>

\* C8, as the code has it: the call returns the two points (0,0), (0,0.001);
\* every point between the pair i = 0, j = 4 is deleted, (0,10) with them
C8_TwoPoints ==
    OutAndBackCall => ret.value = <<<<0, 0>>, <<0, 1>>>>

C8_Witness == OutAndBackCall /\ ret.done /\ Len(ret.value) = 2

----------------------------------------------------------------------------
(* Properties of run *)

\* C9: the offset stage yields one point per sample, reduce_route and
\* remove_loops_composite only remove points, smooth_route keeps the count,
\* so after every stage the route has at most as many points as samples
C9_PointCounts ==
    [][/\ pc' = "offsets" => Len(final_route') = Len(disc_points')
       /\ pc' \in {"reduced", "loops_removed"} => Len(final_route') <= Len(final_route)
       /\ pc' = "smoothed" => Len(final_route') = Len(final_route)
       /\ pc' \in {"reduced", "loops_removed", "smoothed", "saved"} =>
             Len(final_route') <= Len(disc_points')]_vars

\* a smoothed route, longer than the window, from which points were removed
C9_Witness ==
    /\ pc = "smoothed"
    /\ Len(final_route) > 5
    /\ Len(final_route) < Len(disc_points)

----------------------------------------------------------------------------
(* Properties of the saved route *)

\* the squared distance of the planar point p from waypoint i
WaypointDist2(p, waypoints, i) == Dist2(p, <<waypoints[i].lng - Lng0, waypoints[i].lat - Lat0>>)

\* waypoint i is the first of the waypoints nearest to p
FirstNearest(p, waypoints, i) ==
    \A j \in 1..Len(waypoints) :
        /\ WaypointDist2(p, waypoints, i) <= WaypointDist2(p, waypoints, j)
        /\ j < i => WaypointDist2(p, waypoints, i) < WaypointDist2(p, waypoints, j)

\* C10: each point of the saved route has the altitude of the waypoint nearest
\* to it, and of the first such waypoint in routePoints order when several
\* are equally near
C10_NearestAltitude ==
    (call.fn = "save_outputs" /\ call.waypoints # <<>>) =>
        \A k \in 1..Len(ret.value) :
            \E i \in 1..Len(call.waypoints) :
                /\ FirstNearest(call.route[k], call.waypoints, i)
                /\ ret.value[k].altitude = call.waypoints[i].altitude

\* a point midway between three waypoints, the third being the first again
C10_Witness ==
    /\ call.fn = "save_outputs"
    /\ call.route[1] = <<U, U>>
    /\ call.waypoints = RouteThrough(<<<<2 * U, 0>>, <<0, 2 * U>>, <<2 * U, 0>>>>)
    /\ ret.value[1].altitude = 10

----------------------------------------------------------------------------
(* Properties of the geometry *)

StrictlyInside(p, ring) ==
    /\ MinX(ring) < p[1] /\ p[1] < MaxX(ring)
    /\ MinY(ring) < p[2] /\ p[2] < MaxY(ring)

\* C12: is_valid(point, polygon) is true exactly when the point is outside the
\* polygon and not on its boundary; it is false for every interior point and
\* every boundary point
C12_IsValidOutside ==
    call.fn = "is_valid" =>
        /\ ret.value = ~InOrOn(call.pt, call.poly)
        /\ StrictlyInside(call.pt, call.poly) => ret.value = FALSE
        /\ (InOrOn(call.pt, call.poly) /\ ~StrictlyInside(call.pt, call.poly)) => ret.value = FALSE

\* calls for a corner of the square, found not valid
C12_Witness ==
    /\ call.fn = "is_valid"
    /\ call.pt = <<2 * U, 2 * U>>
    /\ ret.value = FALSE

\* the nearest-edge projection of the sample of a call of _compute_safe_offset
SampleProjection == project_to_nearest_polygon(utm_to_wgs(call.pt[1], call.pt[2]), call.polygons_utm).proj

\* C16: the safe offset is the sample moved OFFSET metres further from its
\* nearest-edge projection: it lies on the line through the projection and
\* the sample, at the sample's distance plus OFFSET from the projection
C16_SafeOffsetFurther ==
    (call.fn = "compute_safe_offset" /\ call.pt # SampleProjection) =>
        /\ Abs(Distance(ret.value, SampleProjection)
                - (Distance(call.pt, SampleProjection) + call.offset)) <= 2
        /\ Abs((ret.value[1] - SampleProjection[1]) * (call.pt[2] - SampleProjection[2])
                - (ret.value[2] - SampleProjection[2]) * (call.pt[1] - SampleProjection[1]))
             <= 2 * Distance(call.pt, SampleProjection)

----------------------------------------------------------------------------
(* Properties of the corrected segment *)

Occurrences(s, e) == Cardinality({k \in 1..Len(s) : s[k] = e})

\* the points where the segment of the call enters and leaves the polygon
EntryPoint == intersection(call.segment, call.polygons[1])[1]

ExitPoint == LastOf(intersection(call.segment, call.polygons[1]))

\* C17: for a two-point segment A -> B that crosses a polygon, _correct_segment
\* returns A, the detour arc, B: A and B occur once each, at the two ends, and
\* B does not follow A, wherever along the segment the polygon lies
C17_EndsOnce ==
    call.fn = "correct_segment" =>
        /\ ret.value[1] = call.segment[1]
        /\ LastOf(ret.value) = call.segment[2]
        /\ Occurrences(ret.value, call.segment[1]) = 1
        /\ Occurrences(ret.value, call.segment[2]) = 1
        /\ Len(ret.value) = BypassPoints + 2
        /\ \A k \in 1..(Len(ret.value) - 1) :
              ~(ret.value[k] = call.segment[1] /\ ret.value[k + 1] = call.segment[2])

\* C18: in a corrected segment A, arc, B the arc runs from the point where the
\* segment enters the polygon to the point where it leaves it
C18_ArcInTravelOrder ==
    (/\ call.fn = "correct_segment"
     /\ Len(ret.value) = BypassPoints + 2
     /\ ret.value[1] = call.segment[1]
     /\ LastOf(ret.value) = call.segment[2])
    => /\ ret.value[2] = EntryPoint
       /\ ret.value[Len(ret.value) - 1] = ExitPoint

----------------------------------------------------------------------------
(* Properties of the blend *)

\* the first sample of the run of boundary samples that holds sample k
RunStart(k) ==
    MaxOf({j \in 1..k : j = 1 \/ disc_points[j - 1].type # "boundary"})

SampleUtm(k) == wgs_to_utm(disc_points[k].wgs[2], disc_points[k].wgs[1])

\* the safe candidate of sample k
SafeCandidate(k) == compute_safe_offset(disc_points[k].wgs, polygons_utm, offset, fp.residue)

\* the boundary candidate of the boundary sample k, from the offsets made for
\* the samples of its run before it
BoundaryCandidate(k) ==
    candidate_boundary(SampleUtm(k), k - RunStart(k),
                       Tuple([j \in 1..(run_end(disc_points, k) - RunStart(k) + 1) |->
                                 SampleUtm(RunStart(k) + j - 1)]),
                       Tuple([j \in 1..(k - RunStart(k)) |->
                                 Tagged(final_route[RunStart(k) + j - 1], FALSE)]),
                       polygons_utm[1], offset, buffer(polygons_utm[1], offset)).pt

\* safe * (1 - r) + boundary * r for r = (d - T_down) / (T_up - T_down)
LinearBlend(safe, boundary, d) ==
    <<RoundDiv(safe[1] * (TOLERANCE_UP - d) + boundary[1] * (d - TOLERANCE_DOWN),
               TOLERANCE_UP - TOLERANCE_DOWN),
      RoundDiv(safe[2] * (TOLERANCE_UP - d) + boundary[2] * (d - TOLERANCE_DOWN),
               TOLERANCE_UP - TOLERANCE_DOWN)>>

\* C19: a boundary sample with stored distance d gets the linear blend of its
\* safe and boundary offsets when T_down < d < T_up, the safe offset when
\* d <= T_down and the boundary offset when d >= T_up; a safe sample gets the
\* safe offset
C19_BlendSelection ==
    pc = "offsets" =>
        \A k \in 1..Len(disc_points) :
            IF disc_points[k].type = "safe" THEN final_route[k] = SafeCandidate(k)
            ELSE IF TOLERANCE_DOWN < disc_points[k].dist /\ disc_points[k].dist < TOLERANCE_UP
            THEN final_route[k]
                   = LinearBlend(SafeCandidate(k), BoundaryCandidate(k), disc_points[k].dist)
            ELSE IF disc_points[k].dist <= TOLERANCE_DOWN THEN final_route[k] = SafeCandidate(k)
            ELSE final_route[k] = BoundaryCandidate(k)

\* offsets with a boundary sample inside the band whose offset is neither of
\* its two candidates, and a boundary sample beyond the band
C19_Witness ==
    /\ pc = "offsets"
    /\ \E k \in 1..Len(disc_points) :
          /\ disc_points[k].type = "boundary"
          /\ TOLERANCE_DOWN < disc_points[k].dist /\ disc_points[k].dist < TOLERANCE_UP
          /\ final_route[k] # SafeCandidate(k)
          /\ final_route[k] # BoundaryCandidate(k)
    /\ \E k \in 1..Len(disc_points) :
          disc_points[k].type = "boundary" /\ disc_points[k].dist >= TOLERANCE_UP

----------------------------------------------------------------------------
(* Properties of the loop removal *)

Minus(p, q) == <<p[1] - q[1], p[2] - q[2]>>

Dot(v, w) == v[1] * w[1] + v[2] * w[2]

Cross(v, w) == v[1] * w[2] - v[2] * w[1]

\* the angle between v and w is at least 150 degrees: neither is the zero
\* vector and cos <= -sqrt(3)/2, i.e. dot <= 0 and dot^2 >= 3 * cross^2
AtLeast150(v, w) ==
    /\ v # <<0, 0>>
    /\ w # <<0, 0>>
    /\ Dot(v, w) <= 0
    /\ ScaledSqGE(1, Dot(v, w), 3, Cross(v, w))

\* the pair i < j (0-based) of the list is nearer than the distance
\* threshold and turns back by the angle threshold of 150 degrees
PairTriggers(cleaned, i, j, distance_threshold) ==
    /\ Dist2(cleaned[i + 1], cleaned[j + 1]) < distance_threshold * distance_threshold
    /\ AtLeast150(Minus(cleaned[i + 2], cleaned[i + 1]), Minus(cleaned[j + 1], cleaned[j]))

\* the scan over the pairs: a pair that triggers loses the points strictly
\* between i and j and the scan goes on at j = i + 2 for the same i
RECURSIVE PairScan(_, _, _, _)
PairScan(cleaned, i, j, distance_threshold) ==
    IF ~(i < Len(cleaned) - 2) THEN cleaned
    ELSE IF ~(j < Len(cleaned)) THEN PairScan(cleaned, i + 1, i + 3, distance_threshold)
    ELSE IF PairTriggers(cleaned, i, j, distance_threshold)
    THEN PairScan(SubSeq(cleaned, 1, i + 1) \o SubSeq(cleaned, j + 1, Len(cleaned)), i, i + 2,
                  distance_threshold)
    ELSE PairScan(cleaned, i, j + 1, distance_threshold)

----------------------------------------------------------------------------
(* Properties of the services *)

\* the invocation i has saved its outputs
Wrote(i) == reqs[i].at = "saved" \/ (reqs[i].at = "answered" /\ reqs[i].status = 200)

\* C11: two runs on the same mission with the same offset write the same
\* offset_route.json and the same mission_map.html, whenever each of them runs
C11_Determinism ==
    \A i, j \in Ids :
        (/\ Wrote(i) /\ Wrote(j)
         /\ reqs[i].fetched = reqs[j].fetched
         /\ reqs[i].manager.offset = reqs[j].manager.offset)
        => reqs[i].json = reqs[j].json /\ reqs[i].map = reqs[j].map

\* the invocation i has fetched its mission document
Fetched(i) == reqs[i].fetched.keys # {}

\* a mission that input validation has to reject
InvalidMission(data) ==
    \/ ~(Required \subseteq data.keys)
    \/ data.routePoints = <<>>
    \/ data.savedPolygons = <<>>

\* C13: an invocation whose mission lacks a required field, has an empty route
\* or has an empty polygon set never starts classification or offsetting
C13_FailsFast ==
    \A i \in Ids :
        (Fetched(i) /\ InvalidMission(reqs[i].fetched))
        => /\ ~reqs[i].manager.started
           /\ reqs[i].at \notin {"classified", "offsets", "saved"}

\* the offset of the body is there and is no number: a string that is not
\* made of digits, null, a list or an object
Unconvertible(body) ==
    /\ body.has_offset
    /\ \/ body.offset.kind \in {"null", "list", "object"}
       \/ /\ body.offset.kind = "string"
          /\ \E k \in 1..Len(body.offset.chars) : ~IsDigit(body.offset.chars[k])

\* C14: a request whose offset cannot be converted to a number starts no
\* route computation and is answered with 400 and the error "Bad offset"
C14_BadOffset ==
    \A i \in Ids :
        Unconvertible(reqs[i].body)
        => /\ reqs[i].at \in {reqs[i].via, "answered"}
           /\ ~reqs[i].manager.started
           /\ reqs[i].at = "answered"
                  => reqs[i].status = 400 /\ reqs[i].error = "Bad offset"

\* the offset that the request of invocation i asks for
Asked(i) == python_float(get_offset(reqs[i].body)).value

\* the stages of MissionManager.run
Running == {"init", "classified", "offsets", "saved"}

\* C15: in every interleaving of two invocations each manager holds the
\* route and polygons of the mission it fetched and the offset it was asked
\* for, its samples are those of its own route, and its offsets are computed
\* from its own samples, its own polygons and its own offset
C15_OwnData ==
    \A i \in Ids :
        /\ reqs[i].at \in Running
              => /\ reqs[i].manager.route_pts = reqs[i].fetched.routePoints
                 /\ reqs[i].manager.polygons_wgs = reqs[i].fetched.savedPolygons
                 /\ reqs[i].manager.offset = Asked(i)
        /\ reqs[i].at \in {"classified", "offsets"}
              => reqs[i].manager.disc_points =
                     classify_points(reqs[i].fetched.routePoints,
                                     reqs[i].fetched.savedPolygons, fp.tie_first)
        /\ reqs[i].at = "offsets"
              => reqs[i].manager.final_route =
                     PointsOf(build_offsets(
                         classify_points(reqs[i].fetched.routePoints,
                                         reqs[i].fetched.savedPolygons, fp.tie_first),
                         Tuple([k \in 1..Len(reqs[i].fetched.savedPolygons) |->
                                    poly_to_utm(reqs[i].fetched.savedPolygons[k])]),
                         Asked(i), fp.residue))

\* both invocations have built their offsets, with different offsets and
\* from different missions, and neither has gone on
C15_Witness ==
    /\ reqs # <<>>
    /\ \A i \in Ids : reqs[i].at = "offsets" /\ Len(reqs[i].manager.final_route) > 0
    /\ reqs[1].manager.offset # reqs[2].manager.offset
    /\ reqs[1].fetched # reqs[2].fetched
    /\ reqs[1].manager.final_route # reqs[2].manager.final_route

(***************************************************************************)
(* remove_loops_composite, one pass of its inner loop at a time.  `call`   *)
(* holds the arguments; `ret` holds the locals cleaned, i and j, read at   *)
(* the inner loop's test (line 195), and the value returned at line 214.   *)
(***************************************************************************)

\* a cut that leaves the list as it is
delete_nothing(cleaned, i, j) == cleaned

\* cleaned[:i+1] + cleaned[j:]
delete_between(cleaned, i, j) ==
    Slice(cleaned, 0, i + 1) \o Slice(cleaned, j, Len(cleaned))

\* the locals when control reaches the outer loop's test with this i: either
\* the inner loop starts at j = i + 2 or the function returns cleaned
AtOuterTest(cleaned, i, j) ==
    IF i < Len(cleaned) - 2
    THEN [done |-> FALSE, value |-> <<>>, cleaned |-> cleaned, i |-> i, j |-> i + 2]
    ELSE [done |-> TRUE, value |-> cleaned, cleaned |-> cleaned, i |-> i, j |-> j]

\* the routes run along one line, out and back
LoopEnter ==
    /\ call = NoCall
    /\ \E route \in RoutesOver(LoopPoints \ {<<U, 5 * U>>}, MaxRouteLen) \cup {OutAndBack} :
           /\ call' = [fn |-> "remove_loops_composite", route |-> route,
                       distance_threshold |-> 2 * U, angle_threshold |-> 150]
           /\ ret' = IF route = <<>>
                     THEN [done |-> TRUE, value |-> <<>>, cleaned |-> <<>>, i |-> 0, j |-> 0]
                     ELSE AtOuterTest(route, 0, 0)
    /\ UNCHANGED run_vars

InLoop == call # NoCall /\ ~ret.done

\* lines 197-211: the pair passes both tests
LoopDelete ==
    /\ InLoop
    /\ ret.j < Len(ret.cleaned)
    /\ LoopAt(ret.cleaned, ret.i, ret.j, call.distance_threshold, call.angle_threshold)
    /\ ret' = [ret EXCEPT !.cleaned = delete_between(ret.cleaned, ret.i, ret.j),
                          !.j = ret.i + 2]
    /\ UNCHANGED <<call, run_vars>>

\* line 212
LoopAdvanceJ ==
    /\ InLoop
    /\ ret.j < Len(ret.cleaned)
    /\ ~LoopAt(ret.cleaned, ret.i, ret.j, call.distance_threshold, call.angle_threshold)
    /\ ret' = [ret EXCEPT !.j = ret.j + 1]
    /\ UNCHANGED <<call, run_vars>>

\* line 213, then the outer test
LoopAdvanceI ==
    /\ InLoop
    /\ ~(ret.j < Len(ret.cleaned))
    /\ ret' = AtOuterTest(ret.cleaned, ret.i + 1, ret.j)
    /\ UNCHANGED <<call, run_vars>>

LoopNext == LoopEnter \/ LoopDelete \/ LoopAdvanceJ \/ LoopAdvanceI

\* the interpreter runs the call to its end unless the loop itself never ends
SpecLoop == FnInit /\ [][LoopNext]_vars /\ WF_vars(LoopNext)

----------------------------------------------------------------------------
(* Properties of the offsets, the walk and the cleaning steps *)

\* C21: once _build_offsets has run there is one offset point per sample, the
\* samples are numbered by their position, a safe sample's slot holds its
\* own safe offset, and the run goes on from there
C21_OneOffsetPerSample ==
    pc = "offsets"
    => /\ Len(final_route) = Len(disc_points)
       /\ \A k \in 1..Len(disc_points) :
             /\ disc_points[k].index = k - 1
             /\ Len(final_route[k]) = 2
             /\ disc_points[k].type = "safe"
                    => final_route[k] =
                           compute_safe_offset(disc_points[k].wgs, polygons_utm, offset,
                                               fp.residue)
       /\ ENABLED ReduceRoute

\* offsets were built for a route with safe samples and boundary samples
C21_Witness ==
    /\ pc = "offsets"
    /\ \E k \in 1..Len(disc_points) : disc_points[k].type = "boundary"
    /\ \E k \in 1..Len(disc_points) : disc_points[k].type = "safe"

\* the sum of coordinate c of the points lo .. hi (1-based) of a route
RECURSIVE WindowSum(_, _, _, _)
WindowSum(route, c, lo, hi) ==
    IF lo > hi THEN 0 ELSE WindowSum(route, c, lo, hi - 1) + route[hi][c]

\* m is the quotient total / count rounded to the nearest unit
IsMean(m, total, count) == 2 * (m * count - total) <= count /\ 2 * (total - m * count) <= count

\* C22: smooth_route returns as many points as it is given, point i being the
\* mean of the given points max(0, i - half) .. min(n - 1, i + half), where
\* half is 2 for the window 5; a window below 2 returns the route unchanged
C22_MovingAverage ==
    (call.fn = "smooth_route" /\ ret.done)
    => IF call.window_size < 2 THEN ret.value = call.route
       ELSE /\ Len(ret.value) = Len(call.route)
            /\ \A i \in 0..(Len(call.route) - 1) :
                  \A c \in 1..2 :
                      IsMean(ret.value[i + 1][c],
                             WindowSum(call.route, c,
                                       Max(0, i - call.window_size \div 2) + 1,
                                       Min(Len(call.route) - 1, i + call.window_size \div 2) + 1),
                             Min(Len(call.route) - 1, i + call.window_size \div 2)
                                 - Max(0, i - call.window_size \div 2) + 1)

\* a route of more than five points was smoothed with the window 5, so that
\* points with a full window and points with a shrunk window both occur
C22_Witness ==
    /\ call.fn = "smooth_route" /\ ret.done
    /\ call.window_size = 5
    /\ Len(call.route) > 5
    /\ ret.value # call.route

\* the length of a line of axis-parallel segments
RECURSIVE WalkLength(_)
WalkLength(line) ==
    IF Len(line) < 2 THEN 0
    ELSE WalkLength(SubSeq(line, 1, Len(line) - 1))
           + Abs(line[Len(line)][1] - line[Len(line) - 1][1])
           + Abs(line[Len(line)][2] - line[Len(line) - 1][2])

\* the arc length at which the point p lies on a line that goes right, then up
ArcOf(line, p) == (p[1] - line[1][1]) + (p[2] - line[1][2])

\* p lies on the line
OnWalk(line, p) ==
    \E k \in 1..(Len(line) - 1) :
        /\ Min(line[k][1], line[k + 1][1]) <= p[1] /\ p[1] <= Max(line[k][1], line[k + 1][1])
        /\ Min(line[k][2], line[k + 1][2]) <= p[2] /\ p[2] <= Max(line[k][2], line[k + 1][2])

\* C23: the walk over a line of length L ends, its samples lie on the line at
\* the arc lengths 0, step, 2 * step, ... up to the largest multiple of step
\* that does not exceed L, in this order, and the sample at the end of the
\* line exists only when L is a multiple of step
C23_Walk ==
    (call.fn = "gen_points" /\ ret.done)
    => /\ Len(ret.value) = (WalkLength(call.line) \div call.step) + 1
       /\ \A k \in 1..Len(ret.value) :
             /\ OnWalk(call.line, ret.value[k])
             /\ ArcOf(call.line, ret.value[k]) = (k - 1) * call.step
       /\ \A k \in 1..(Len(ret.value) - 1) :
             ArcOf(call.line, ret.value[k]) < ArcOf(call.line, ret.value[k + 1])
       /\ (\E k \in 1..Len(ret.value) :
              ArcOf(call.line, ret.value[k]) = WalkLength(call.line))
            <=> WalkLength(call.line) % call.step = 0

\* a line with a corner whose length is no multiple of the step was walked
C23_Witness ==
    /\ call.fn = "gen_points" /\ ret.done
    /\ Len(call.line) = 3
    /\ WalkLength(call.line) % call.step # 0
    /\ Len(ret.value) > 3
    /\ \E k \in 1..Len(ret.value) : ret.value[k][2] > 0

\* the displacement applied to point j (1-based) of the group of the call
Applied(j) == <<ret.value[j].pt[1] - call.seg_utm[j][1], ret.value[j].pt[2] - call.seg_utm[j][2]>>

\* the last point of the group moved by the mean of the last three displacements
MeanOfThree(n) ==
    \A c \in 1..2 :
        IsMean(ret.value[n].pt[c] - call.seg_utm[n][c],
               Applied(n - 1)[c] + Applied(n - 2)[c] + Applied(n - 3)[c], 3)

\* C24: the last point of a group is extrapolated only when three earlier
\* points of the group were shifted, by the mean of their last three
\* displacements when that lands on a valid point; with fewer earlier points
\* it is shifted by shift_point
C24_ExtrapolateFromThree ==
    (call.fn = "shift_group" /\ ret.done /\ Len(call.seg_utm) > 1)
    => IF Len(call.seg_utm) - 1 >= 3
       THEN \/ MeanOfThree(Len(call.seg_utm))
            \/ ~is_valid(Extrapolated(call.seg_utm[Len(call.seg_utm)],
                                      SubSeq(ret.value, 1, Len(call.seg_utm) - 1),
                                      call.seg_utm, 3),
                         call.polygons_utm[1])
       ELSE ret.value[Len(call.seg_utm)] =
                shift_point(call.seg_utm[Len(call.seg_utm)], Len(call.seg_utm) - 1,
                            call.seg_utm, call.polygons_utm[1], call.offset,
                            buffer(call.polygons_utm[1], call.offset))

\* a call of one of the two cleaning steps on a route with points has returned
CleaningCall ==
    /\ call.fn \in {"reduce_route", "remove_loops_composite"}
    /\ ret.done
    /\ call.route # <<>>

\* C25: the result of reduce_route and the result of remove_loops_composite
\* begin with the first point and end with the last point of the input
C25_EndsKept ==
    CleaningCall
    => /\ ret.value # <<>>
       /\ ret.value[1] = call.route[1]
       /\ ret.value[Len(ret.value)] = call.route[Len(call.route)]

\* C25, as the code has it: both results begin with the first point of the
\* input; the result of remove_loops_composite ends with the last point of
\* the input, the result of reduce_route ends with a point that is the last
\* input point or lies less than min_distance_m from it
C25_EndsKeptOrNear ==
    CleaningCall
    => /\ ret.value # <<>>
       /\ ret.value[1] = call.route[1]
       /\ IF call.fn = "remove_loops_composite"
          THEN ret.value[Len(ret.value)] = call.route[Len(call.route)]
          ELSE \/ ret.value[Len(ret.value)] = call.route[Len(call.route)]
               \/ Dist2(ret.value[Len(ret.value)], call.route[Len(call.route)])
                      < call.min_distance_m * call.min_distance_m

\* reduce_route has kept several points and dropped its last input point
C25_Witness ==
    /\ CleaningCall
    /\ call.fn = "reduce_route"
    /\ Len(ret.value) > 1
    /\ ret.value[Len(ret.value)] # call.route[Len(call.route)]

\* consecutive points of the route are at least 0.95 m apart
Spaced(route) ==
    \A k \in 1..(Len(route) - 1) :
        Dist2(route[k], route[k + 1]) >= ((95 * U) \div 100) * ((95 * U) \div 100)

\* C26: remove_loops_composite(2.0, 150) applied to a result of
\* reduce_route(0.95) returns a route whose consecutive points are still at
\* least 0.95 m apart
C26_SpacingSurvives ==
    (/\ call.fn = "remove_loops_composite" /\ ret.done
     /\ call.distance_threshold = 2 * U /\ call.angle_threshold = 150
     /\ reduce_route(call.route, (95 * U) \div 100) = call.route)
    => Spaced(ret.value)

\* C27: in the result of remove_loops_composite no pair i < j with j >= i + 2
\* passes the distance test and the angle test, and remove_loops_composite
\* applied to the result returns it unchanged
C27_LoopFree ==
    (call.fn = "remove_loops_composite" /\ ret.done)
    => /\ \A i \in 0..(Len(ret.value) - 3) :
             \A j \in (i + 2)..(Len(ret.value) - 1) :
                 ~LoopAt(ret.value, i, j, call.distance_threshold, call.angle_threshold)
       /\ remove_loops_composite(ret.value, call.distance_threshold, call.angle_threshold)
              = ret.value

\* C28: remove_loops_composite returns on every route: a deletion shortens
\* the list, every other pass of the inner loop leaves the list alone and
\* moves j or i forward, i and j never pass the end of the list, the value
\* returned is the list the loop ended with, and the call reaches its return
C28_Terminates ==
    /\ [][call # NoCall =>
             \/ Len(ret'.cleaned) < Len(ret.cleaned)
             \/ /\ ret'.cleaned = ret.cleaned
                /\ \/ ret'.i > ret.i
                   \/ ret'.i = ret.i /\ ret'.j > ret.j]_vars
    /\ [](call # NoCall => /\ ret.i <= Len(ret.cleaned) /\ ret.j <= Len(ret.cleaned) + 1
                           /\ ret.done => ret.value = ret.cleaned)
    /\ <>(call # NoCall /\ ret.done)

\* a call returned after its loop deleted at least two points, with the
\* value that remove_loops_composite computes for the route
C28_Witness ==
    /\ call # NoCall /\ ret.done
    /\ Len(ret.value) + 2 <= Len(call.route)
    /\ ret.value = remove_loops_composite(call.route, call.distance_threshold,
                                          call.angle_threshold)

\* the polygon of the mission on whose boundary the samples of the group lie
Detoured(seg_utm, polys) ==
    CHOOSE k \in 1..Len(polys) :
        \A p \in 1..Len(seg_utm) : touches(polys[k], seg_utm[p])

\* C29: the points of a group are shifted, checked and, when nothing else is
\* valid, taken from the buffer ring with the polygon on whose boundary the
\* group lies, whichever place that polygon has in the mission
C29_DetouredPolygon ==
    (call.fn = "shift_group" /\ ret.done)
    => ret.value =
           shift_group(<<>>, call.seg_utm, Tuple([k \in 1..Len(call.seg_utm) |-> 2 * U]),
                       <<call.polygons_utm[Detoured(call.seg_utm, call.polygons_utm)]>>,
                       call.offset, 0,
                       buffer(call.polygons_utm[Detoured(call.seg_utm, call.polygons_utm)],
                              call.offset))

\* C30: the routePoints that a successful /process-route request returns are
\* the content of offset_route.json written by the /compute-route call of that
\* same request, whatever other requests and mission updates ran in between
C30_OwnRoutePoints ==
    \A i \in Ids :
        (reqs[i].via = "mediator" /\ reqs[i].at = "answered" /\ reqs[i].status = 200)
        => reqs[i].route_points = reqs[i].json

====
